---- MODULE Spec2Model ----
(***************************************************************************)
(* Reversi: the Board of src/board.py, the AI strategies of src/ai.py and   *)
(* the request handlers of src/game.py, as a state machine.  A state is    *)
(* one Board object (its grid and its turn field), the last call made and  *)
(* what that call returned, and the datastore the handlers work on.        *)
(***************************************************************************)
EXTENDS Integers, Sequences, FiniteSets, TLC

VARIABLES board, turn, op, args, ret, ndb

vars == <<board, turn, op, args, ret, ndb>>

(* ---------------------------- bounds ----------------------------------- *)

\* Board sizes range over the even numbers 2, 4, .. 2 * MaxHalf.
MaxHalf == 2

\* add_piece is explored while fewer than MaxMoves pieces have been placed.
MaxMoves == 6

\* The same, where the Board is saved and loaded between the placements and
\* any side may be made the side to move.
MaxMovesJson == 4

\* _weight_moves_thirds is explored on move lists of up to MaxListLen moves
\* that capture up to MaxScore pieces each.
MaxListLen == 6

MaxScore == 3

\* Move requests on a game in progress are explored while its move log has
\* fewer than MaxLog entries.
MaxLog == 6

\* Resign requests are explored while no account has more than
\* MaxRankUpdates games counted.
MaxRankUpdates == 1

(* ------------------------- class Square -------------------------------- *)

white == 0

black == 1

blank == 2

Square == {white, black, blank}

\* The value who_won returns for a game that is not over.
NotOver == -1

\* The element of a one-element set.  The({F(x) : x \in {e}}) is F(e) with
\* e evaluated once, the way a local variable holds a value.
The(S) == CHOOSE v \in S : TRUE

(* ------------------------- class Board --------------------------------- *)

get_size(b) == Cardinality(DOMAIN b)

\* __init__ with the two colours of the centre block exchanged.
InitGrid_ColoursSwapped(size) ==
  LET h  == size \div 2
      b0 == [r \in 0..(size - 1) |-> [c \in 0..(size - 1) |-> blank]]
      b1 == [b0 EXCEPT ![h][h] = black, ![h - 1][h - 1] = black]
  IN  [b1 EXCEPT ![h][h - 1] = white, ![h - 1][h] = white]

\* Board.__init__ with a size: blank grid, then the four centre cells.
\* size/2 is Python 2 integer division.
InitGrid(size) ==
  LET h  == size \div 2
      b0 == [r \in 0..(size - 1) |-> [c \in 0..(size - 1) |-> blank]]
      b1 == [b0 EXCEPT ![h][h] = white, ![h - 1][h - 1] = white]
  IN  [b1 EXCEPT ![h][h - 1] = black, ![h - 1][h] = black]

\* Board.makeboard: the grid of __init__ and the turn Square.white.
makeboard(size) == [board |-> InitGrid(size), turn |-> white]

\* remakeboard that starts the remade Board the way makeboard starts a new
\* one, with white to move, instead of taking the turn it is given.
remakeboard_TurnOfMakeboard(grid, t) == [board |-> grid, turn |-> white]

\* Board.remakeboard: the grid and the turn it is given, as they are.
remakeboard(grid, t) == [board |-> grid, turn |-> t]

\* A JSON text is the sequence of its characters.
Digits == <<"0", "1", "2", "3", "4", "5", "6", "7", "8", "9">>

\* json.dumps of a list whose items are already dumped: the items between
\* brackets, separated by a comma and a space.
RECURSIVE JoinItems(_, _)
JoinItems(items, j) ==
  IF j > Len(items) THEN <<>>
  ELSE (IF j > 1 THEN <<",", " ">> ELSE <<>>)
         \o items[j] \o JoinItems(items, j + 1)

DumpsList(items) == <<"[">> \o JoinItems(items, 1) \o <<"]">>

\* Board.to_json: json.dumps of the list of rows; a cell is one digit.
to_json(b) ==
  DumpsList([r \in 1..get_size(b) |->
               DumpsList([c \in 1..get_size(b) |->
                            <<Digits[b[r - 1][c - 1] + 1]>>])])

\* The k-th smallest element of a set of numbers.
Nth(S, k) == CHOOSE x \in S : Cardinality({y \in S : y < x}) = k - 1

\* The natural number whose digits start at character i of a JSON text.
RECURSIVE LoadsDigits(_, _, _)
LoadsDigits(data, i, value) ==
  IF i <= Len(data) /\ \E d \in 1..10 : Digits[d] = data[i]
  THEN LoadsDigits(data, i + 1,
                   10 * value + (CHOOSE d \in 1..10 : Digits[d] = data[i]) - 1)
  ELSE value

\* The integer that starts at character i of a JSON text.
LoadsInt(data, i) ==
  IF data[i] = "-" THEN -LoadsDigits(data, i + 1, 0)
  ELSE LoadsDigits(data, i, 0)

\* The integers of a JSON text between characters from and to, in order.
LoadsRow(data, from, to) ==
  The({[n \in 1..Cardinality(starts) |-> LoadsInt(data, Nth(starts, n))] :
         starts \in {{i \in from..to :
                        /\ data[i] \notin {"[", "]", ",", " "}
                        /\ data[i - 1] \in {"[", ",", " "}}}})

\* json.loads of a list of lists of integers: the k-th inner list lies
\* between the k-th "[" and the k-th "]" after the first character.
LoadsLists(data) ==
  The({[k \in 1..Cardinality(opens) |->
          LoadsRow(data, Nth(opens, k) + 1,
                   Nth({i \in 2..Len(data) : data[i] = "]"}, k))] :
         opens \in {{i \in 2..Len(data) : data[i] = "["}}})

\* Board.from_json: the rows of json.loads(data), numbered from 0 as a list
\* is, and the turn passed in.
from_json(data, t) ==
  The({remakeboard([r \in 0..(Len(rows) - 1) |->
                      [c \in 0..(Len(rows[r + 1]) - 1) |-> rows[r + 1][c + 1]]],
                   t) :
         rows \in {LoadsLists(data)}})

get_squares_left(b) ==
  Cardinality({p \in (DOMAIN b) \X (DOMAIN b) : b[p[1]][p[2]] = blank})

\* get_num_moves that forgets the four pieces makeboard puts on the grid.
get_num_moves_WithCentre(b) ==
  get_size(b) * get_size(b) - get_squares_left(b)

get_num_moves(b) == get_size(b) * get_size(b) - 4 - get_squares_left(b)

num_pieces(b, team) ==
  Cardinality({p \in (DOMAIN b) \X (DOMAIN b) : b[p[1]][p[2]] = team})

\* Board._validate_input: in range, then the caller's turn, then a blank cell.
validate_input(b, t, r, c, team) ==
  IF r < 0 \/ r >= get_size(b) \/ c < 0 \/ c >= get_size(b) THEN FALSE
  ELSE IF t # team THEN FALSE
  ELSE IF b[r][c] # blank THEN FALSE
  ELSE TRUE

\* The inner while loop of _validate_flip along one direction: the cell of
\* the acting team that closes a run of other pieces, or <<>> when the ray
\* leaves the grid, meets a blank, or meets the team with nothing between.
RECURSIVE ScanRay(_, _, _, _, _, _, _)
ScanRay(b, cur_r, cur_c, dr, dc, team, found_other) ==
  IF ~(cur_r < get_size(b) /\ cur_r >= 0 /\
       cur_c < get_size(b[0]) /\ cur_c >= 0) THEN <<>>
  ELSE IF b[cur_r][cur_c] = blank THEN <<>>
  ELSE IF b[cur_r][cur_c] = team
       THEN (IF found_other THEN <<cur_r, cur_c>> ELSE <<>>)
  ELSE ScanRay(b, cur_r + dr, cur_c + dc, dr, dc, team, TRUE)

\* The walk back from the closing cell to the placed cell, collecting the
\* cells in between (flip_pieces.append).
RECURSIVE WalkBack(_, _, _, _, _, _)
WalkBack(cur_r, cur_c, mv_r, mv_c, r, c) ==
  IF cur_r + mv_r # r \/ cur_c + mv_c # c
  THEN {<<cur_r + mv_r, cur_c + mv_c>>}
         \cup WalkBack(cur_r + mv_r, cur_c + mv_c, mv_r, mv_c, r, c)
  ELSE {}

\* The eight directions of the two xrange(-1, 2) loops.
Directions == {d \in (-1..1) \X (-1..1) : ~(d[1] = 0 /\ d[2] = 0)}

\* The cells one direction adds to flip_pieces.
RayPieces(b, r, c, d, team) ==
  LET hit == ScanRay(b, r + d[1], c + d[2], d[1], d[2], team, FALSE)
  IN  IF hit = <<>> THEN {}
      ELSE WalkBack(hit[1], hit[2], -1 * d[1], -1 * d[2], r, c)

\* flip_set of _validate_flip when keep_score is true.
FlipSet(b, r, c, team) ==
  UNION {RayPieces(b, r, c, d, team) : d \in Directions}

\* _flip_pieces that turns white pieces black and leaves black ones alone.
flip_pieces_OneWay(b, pieces) ==
  [r \in DOMAIN b |->
    [c \in DOMAIN b[r] |->
      IF <<r, c>> \in pieces /\ b[r][c] = white THEN black ELSE b[r][c]]]

\* _flip_pieces that changes sides by arithmetic, as if the two sides were
\* numbered 1 and 2 the way the log messages number the players.
flip_pieces_OneBased(b, pieces) ==
  [r \in DOMAIN b |->
    [c \in DOMAIN b[r] |->
      IF <<r, c>> \in pieces THEN 3 - b[r][c] ELSE b[r][c]]]

\* Board._flip_pieces: white becomes black, anything else becomes white.
flip_pieces(b, pieces) ==
  [r \in DOMAIN b |->
    [c \in DOMAIN b[r] |->
      IF <<r, c>> \in pieces
      THEN (IF b[r][c] = white THEN black ELSE white)
      ELSE b[r][c]]]

\* _validate_flip that flips the pieces it has collected whether or not it
\* was asked to.
validate_flip_AlwaysFlips(b, r, c, team, should_flip, keep_score) ==
  IF keep_score
  THEN LET flip_set == FlipSet(b, r, c, team)
       IN  [ret   |-> Cardinality(flip_set),
            board |-> flip_pieces(b, flip_set)]
  ELSE [ret   |-> IF \E d \in Directions :
                       ScanRay(b, r + d[1], c + d[2], d[1], d[2], team, FALSE)
                         # <<>>
                  THEN 1 ELSE 0,
        board |-> b]

\* Board._validate_flip: the value returned and the grid afterwards.
validate_flip(b, r, c, team, should_flip, keep_score) ==
  IF keep_score
  THEN LET flip_set == FlipSet(b, r, c, team)
       IN  [ret   |-> Cardinality(flip_set),
            board |-> IF should_flip THEN flip_pieces(b, flip_set) ELSE b]
  ELSE [ret   |-> IF \E d \in Directions :
                       ScanRay(b, r + d[1], c + d[2], d[1], d[2], team, FALSE)
                         # <<>>
                  THEN 1 ELSE 0,
        board |-> b]

\* Board._flip
flip(b, r, c, team) == validate_flip(b, r, c, team, TRUE, TRUE)

\* flip_score asking _validate_flip for legality (keep_score false), not
\* for the score.
flip_score_Legality(b, t, r, c, team) ==
  IF validate_input(b, t, r, c, team)
  THEN validate_flip(b, r, c, team, FALSE, FALSE).ret
  ELSE 0

\* Board.flip_score
flip_score(b, t, r, c, team) ==
  IF validate_input(b, t, r, c, team)
  THEN validate_flip(b, r, c, team, FALSE, TRUE).ret
  ELSE 0

\* Board.can_flip
can_flip(b, t, r, c, team) ==
  validate_input(b, t, r, c, team)
    /\ validate_flip(b, r, c, team, FALSE, FALSE).ret # 0

\* can_move that looks for a capture by team whoever is to move.
can_move_AnyTurn(b, t, team) ==
  \E r \in 0..(get_size(b) - 1) : \E c \in 0..(get_size(b) - 1) :
    can_flip(b, team, r, c, team)

\* Board.can_move
can_move(b, t, team) ==
  \E r \in 0..(get_size(b) - 1) : \E c \in 0..(get_size(b) - 1) :
    can_flip(b, t, r, c, team)

\* _set_next_turn without the "No more legal moves" case: the turn is never
\* set to the terminal marker.
set_next_turn_NoGameOver(b, t) ==
  LET black_able == can_move(b, black, black)
      white_able == can_move(b, white, white)
  IN  IF t = white THEN (IF ~black_able THEN white ELSE black)
      ELSE IF t = black THEN (IF ~white_able THEN black ELSE white)
      ELSE t

\* _set_next_turn without the pass rule: the turn alternates whenever
\* either side can move.
set_next_turn_NoPass(b, t) ==
  LET black_able == can_move(b, black, black)
      white_able == can_move(b, white, white)
  IN  IF ~black_able /\ ~white_able THEN blank
      ELSE IF t = white THEN black
      ELSE white

\* Board._set_next_turn: each side is probed with the turn field set to it.
set_next_turn(b, t) ==
  LET cur_turn   == t
      black_able == can_move(b, black, black)
      white_able == can_move(b, white, white)
      t1 == IF ~black_able /\ ~white_able THEN blank ELSE cur_turn
  IN  IF t1 = white THEN (IF ~black_able THEN white ELSE black)
      ELSE IF t1 = black THEN (IF ~white_able THEN black ELSE white)
      ELSE t1

\* What the probes do to the Board they are called on.  A call of
\* flip_score, can_flip or can_move: the value returned and the grid
\* afterwards (none of them assigns the turn).
FlipScoreCall(b, t, r, c, team) ==
  IF validate_input(b, t, r, c, team)
  THEN validate_flip(b, r, c, team, FALSE, TRUE)
  ELSE [ret |-> 0, board |-> b]

CanFlipCall(b, t, r, c, team) ==
  IF validate_input(b, t, r, c, team)
  THEN The({[ret |-> probe.ret # 0, board |-> probe.board] :
              probe \in {validate_flip(b, r, c, team, FALSE, FALSE)}})
  ELSE [ret |-> FALSE, board |-> b]

\* The two loops of can_move from cell number k on.
RECURSIVE CanMoveFrom(_, _, _, _)
CanMoveFrom(b, t, team, k) ==
  IF k >= get_size(b) * get_size(b) THEN [ret |-> FALSE, board |-> b]
  ELSE The({IF probe.ret THEN [ret |-> TRUE, board |-> probe.board]
            ELSE CanMoveFrom(probe.board, t, team, k + 1) :
              probe \in {CanFlipCall(b, t, k \div get_size(b),
                                     k % get_size(b), team)}})

CanMoveCall(b, t, team) == CanMoveFrom(b, t, team, 0)

\* _set_next_turn statement by statement: turns is the sequence of the
\* values assigned to self.turn, board the grid after the two probes.
SetNextTurnSteps(b, t) ==
  The({The({
    LET black_able == black_probe.ret
        white_able == white_probe.ret
        none_able  == ~black_able /\ ~white_able
        t1         == IF none_able THEN blank ELSE t
    IN  [board |-> white_probe.board,
         turns |-> <<black, white, t>>
                     \o (IF none_able THEN <<blank>> ELSE <<>>)
                     \o (IF t1 = white
                         THEN <<black>>
                                \o (IF ~black_able THEN <<white>> ELSE <<>>)
                         ELSE IF t1 = black
                         THEN <<white>>
                                \o (IF ~white_able THEN <<black>> ELSE <<>>)
                         ELSE <<>>)] :
      white_probe \in {CanMoveCall(black_probe.board, white, white)}}) :
    black_probe \in {CanMoveCall(b, black, black)}})

\* add_piece under which a rejected placement forfeits the turn to the
\* other side.
add_piece_RejectForfeits(b, t, r, c, team) ==
  IF ~validate_input(b, t, r, c, team)
  THEN [ret |-> 0, board |-> b, turn |-> IF t = white THEN black ELSE white]
  ELSE LET f == flip(b, r, c, t)
       IN  IF f.ret = 0
           THEN [ret |-> 0, board |-> f.board,
                 turn |-> IF t = white THEN black ELSE white]
           ELSE LET placed == [f.board EXCEPT ![r][c] = t]
                IN  [ret   |-> f.ret,
                     board |-> placed,
                     turn  |-> set_next_turn(placed, t)]

\* add_piece without the early return on zero points: the piece is placed
\* and the turn advanced even when nothing was captured.
add_piece_NoPointsCheck(b, t, r, c, team) ==
  IF ~validate_input(b, t, r, c, team)
  THEN [ret |-> 0, board |-> b, turn |-> t]
  ELSE LET f      == flip(b, r, c, t)
           placed == [f.board EXCEPT ![r][c] = t]
       IN  [ret   |-> f.ret,
            board |-> placed,
            turn  |-> set_next_turn(placed, t)]

\* Board.add_piece: the value returned, the grid and the turn afterwards.
add_piece(b, t, r, c, team) ==
  IF ~validate_input(b, t, r, c, team)
  THEN [ret |-> 0, board |-> b, turn |-> t]
  ELSE LET f == flip(b, r, c, t)
       IN  IF f.ret = 0
           THEN [ret |-> 0, board |-> f.board, turn |-> t]
           ELSE LET placed == [f.board EXCEPT ![r][c] = t]
                IN  [ret   |-> f.ret,
                     board |-> placed,
                     turn  |-> set_next_turn(placed, t)]

\* The two loops of who_won from cell number k on (row k / size, column
\* k % size): +1 for a white cell, -1 for a black one.
RECURSIVE WhiteAdvantage(_, _, _)
WhiteAdvantage(b, k, acc) ==
  IF k >= get_size(b) * get_size(b) THEN acc
  ELSE LET cell == b[k \div get_size(b)][k % get_size(b)]
       IN  WhiteAdvantage(b, k + 1,
             IF cell = white THEN acc + 1
             ELSE IF cell = black THEN acc - 1
             ELSE acc)

\* who_won with > and >= confused: a draw is reported as a white win.
who_won_DrawIsWhite(b, t) ==
  LET white_advantage == WhiteAdvantage(b, 0, 0)
  IN  IF t # blank THEN NotOver
      ELSE IF white_advantage >= 0 THEN white
      ELSE black

\* Board.who_won
who_won(b, t) ==
  LET white_advantage == WhiteAdvantage(b, 0, 0)
  IN  IF t # blank THEN NotOver
      ELSE IF white_advantage = 0 THEN blank
      ELSE IF white_advantage > 0 THEN white
      ELSE black

(* ------------------------------ ai.py ---------------------------------- *)

\* A move is <<row, column, score>>, a list of moves a sequence of them.
\* What a strategy does to its caller: the exception it raised ("" if none),
\* the move it returned (<<>> if it raised), and the caller's Board after
\* the call.
Outcome(raised, move, b, t) ==
  [raised |-> raised, move |-> move, board |-> b, turn |-> t]

\* sorted(moves, key=lambda x: x[idx], reverse=True), idx counted from 1:
\* descending, and stable, so each element goes behind its equals.
RECURSIVE InsertDesc(_, _, _)
InsertDesc(sorted, x, idx) ==
  IF sorted = <<>> THEN <<x>>
  ELSE IF Head(sorted)[idx] >= x[idx]
       THEN <<Head(sorted)>> \o InsertDesc(Tail(sorted), x, idx)
  ELSE <<x>> \o sorted

RECURSIVE SortedDesc(_, _)
SortedDesc(moves, idx) ==
  IF moves = <<>> THEN <<>>
  ELSE The({InsertDesc(sorted, moves[Len(moves)], idx) :
              sorted \in {SortedDesc(SubSeq(moves, 1, Len(moves) - 1), idx)}})

\* The two loops of _get_moves from cell number k on (row k / size, column
\* k % size): the cells with a score other than 0, in the order of their
\* numbers.
ScanMoves(b, t, team, k) ==
  The({[n \in 1..Cardinality(found) |->
          The({<<cell \div get_size(b), cell % get_size(b),
                 flip_score(b, t, cell \div get_size(b), cell % get_size(b),
                            team)>> :
                 cell \in {Nth(found, n)}})] :
         found \in {{cell \in k..(get_size(b) * get_size(b) - 1) :
                       flip_score(b, t, cell \div get_size(b),
                                  cell % get_size(b), team) # 0}}})

\* _get_moves without the sort: the moves in the order the scan finds them.
get_moves_Unsorted(b, t, team) == ScanMoves(b, t, team, 0)

\* ai._get_moves
get_moves(b, t, team) ==
  The({SortedDesc(valid_moves, 3) :
         valid_moves \in {ScanMoves(b, t, team, 0)}})

\* The weight of the move at list index i (from 0) in a list of len moves.
ThirdWeight(i, len, weights) ==
  IF i * 3 <= len THEN weights[1]
  ELSE IF i * 3 <= 2 * len THEN weights[2]
  ELSE weights[3]

\* The scores after the first loop of _weight_moves_thirds.
Weighted(valid_moves, weights) ==
  [j \in 1..Len(valid_moves) |->
     <<valid_moves[j][1], valid_moves[j][2],
       valid_moves[j][3] * ThirdWeight(j - 1, Len(valid_moves), weights)>>]

RECURSIVE SumScores(_, _)
SumScores(moves, j) ==
  IF j = 0 THEN 0 ELSE SumScores(moves, j - 1) + moves[j][3]

\* random.random() * total lies in [0, total); against whole cumulative
\* weights only its integer part matters.
Draws(total) == IF total > 0 THEN 0..(total - 1) ELSE {0}

\* bisect_left in place of bisect: how many cumulative weights are < x.
Bisect_Left(moves, x) ==
  Cardinality({j \in 1..Len(moves) : SumScores(moves, j) < x})

\* bisect(cumulative_weights, x): how many cumulative weights are <= x.
Bisect(moves, x) ==
  Cardinality({j \in 1..Len(moves) : SumScores(moves, j) <= x})

\* _weight_moves_thirds without the "our_move -= 1" clamp: the index found
\* by bisect is used as it is.
weight_moves_thirds_NoClamp(valid_moves, weights, x) ==
  The({IF Bisect(w, x) >= Len(valid_moves)
       THEN [raised |-> "IndexError", move |-> <<>>]
       ELSE [raised |-> "", move |-> w[Bisect(w, x) + 1]] :
         w \in {Weighted(valid_moves, weights)}})

\* ai._weight_moves_thirds, for the draw x: the move returned, or the
\* exception raised by valid_moves[-1] on an empty list.
weight_moves_thirds(valid_moves, weights, x) ==
  The({LET picked   == Bisect(w, x)
           our_move == IF picked = Len(valid_moves) THEN picked - 1
                       ELSE picked
       IN  IF Len(valid_moves) = 0
           THEN [raised |-> "IndexError", move |-> <<>>]
           ELSE [raised |-> "", move |-> w[our_move + 1]] :
         w \in {Weighted(valid_moves, weights)}})

WeightTotal(valid_moves, weights) ==
  SumScores(Weighted(valid_moves, weights), Len(valid_moves))

\* weak_move enumerating the moves of whichever side is to move.
weak_move_SideToMove(b, t, i) ==
  The({IF Len(valid_moves) = 0 THEN Outcome("ValueError", <<>>, b, t)
       ELSE Outcome("", valid_moves[IF i < Len(valid_moves) THEN i + 1
                                    ELSE 1], b, t) :
         valid_moves \in {get_moves(b, t, t)}})

\* ai.weak_move, for the index i that random.randrange returns.
weak_move(b, t, i) ==
  The({IF Len(valid_moves) = 0 THEN Outcome("ValueError", <<>>, b, t)
       ELSE Outcome("", valid_moves[i + 1], b, t) :
         valid_moves \in {get_moves(b, t, black)}})

\* The scores of novice_move after "large - score".
Inverted(valid_moves) ==
  [j \in 1..Len(valid_moves) |->
     <<valid_moves[j][1], valid_moves[j][2],
       valid_moves[1][3] - valid_moves[j][3]>>]

NoviceWeights == <<2, 3, 4>>

ModerateWeights == <<5, 2, 0>>

\* ai.novice_move, for the draw x.
novice_move(b, t, x) ==
  The({IF Len(valid_moves) = 0 THEN Outcome("IndexError", <<>>, b, t)
       ELSE The({Outcome(our_move.raised, our_move.move, b, t) :
                   our_move \in {weight_moves_thirds(Inverted(valid_moves),
                                                     NoviceWeights, x)}}) :
         valid_moves \in {get_moves(b, t, black)}})

\* moderate_move answering an empty move list with the corner cell instead
\* of failing.
moderate_move_Default(b, t, x) ==
  The({IF our_move.raised # "" THEN Outcome("", <<0, 0, 0>>, b, t)
       ELSE Outcome("", our_move.move, b, t) :
         our_move \in {weight_moves_thirds(get_moves(b, t, black),
                                           ModerateWeights, x)}})

\* ai.moderate_move, for the draw x.
moderate_move(b, t, x) ==
  The({Outcome(our_move.raised, our_move.move, b, t) :
         our_move \in {weight_moves_thirds(get_moves(b, t, black),
                                           ModerateWeights, x)}})

\* moves_in_advance of strong_move.
MovesInAdvance == 3

\* The reply loop with "if" in place of "while": white replies once, whether
\* or not the turn is white's again afterwards.
WhiteReplies_Once(b, t, num_moves_left) ==
  IF t # white
  THEN [raised |-> "", board |-> b, turn |-> t, left |-> num_moves_left]
  ELSE The({
         IF Len(white_moves) = 0
         THEN [raised |-> "IndexError", board |-> b, turn |-> t,
               left |-> num_moves_left]
         ELSE The({[raised |-> "", board |-> res.board, turn |-> res.turn,
                    left |-> IF res.turn = blank THEN 1 ELSE num_moves_left] :
                     res \in {add_piece(b, t, white_moves[1][1],
                                        white_moves[1][2], white)}}) :
           white_moves \in {get_moves(b, t, white)}})

\* The while loop of strong_move_recurse: white takes its highest scoring
\* move for as long as the turn is white; num_moves_left becomes 1 when the
\* game ends.
RECURSIVE WhiteReplies(_, _, _)
WhiteReplies(b, t, num_moves_left) ==
  IF t # white
  THEN [raised |-> "", board |-> b, turn |-> t, left |-> num_moves_left]
  ELSE The({
         IF Len(white_moves) = 0
         THEN [raised |-> "IndexError", board |-> b, turn |-> t,
               left |-> num_moves_left]
         ELSE The({WhiteReplies(res.board, res.turn,
                                IF res.turn = blank THEN 1
                                ELSE num_moves_left) :
                     res \in {add_piece(b, t, white_moves[1][1],
                                        white_moves[1][2], white)}}) :
           white_moves \in {get_moves(b, t, white)}})

\* strong_move_recurse returns [raised, move, count].  One iteration of its
\* for loop, for candidate j: the copy of the board after the move and
\* white's replies, and num_moves_left, the one variable that all the
\* iterations share.
AfterCandidate(b, t, move, num_moves_left) ==
  The({WhiteReplies(placed.board, placed.turn,
                    IF placed.turn = blank THEN 1 ELSE num_moves_left) :
         placed \in {add_piece(b, t, move[1], move[2], black)}})

RECURSIVE strong_move_recurse(_, _, _, _)

\* The body of the for loop for one candidate: the exception raised ("" if
\* none), the pair <<move, count>> the recursive call has returned, and the
\* copy of the board and num_moves_left as the body leaves them.
CandidateStep(b, t, move, num_moves_left) ==
  The({
    IF after.raised # ""
    THEN [raised |-> after.raised, result |-> <<>>, board |-> after.board,
          turn |-> after.turn, left |-> after.left]
    ELSE The({[raised |-> move_result.raised,
               result |-> <<move, move_result.count>>,
               board |-> after.board, turn |-> after.turn,
               left |-> after.left] :
                move_result \in {strong_move_recurse(after.board, after.turn,
                                                     after.left - 1, move)}}) :
      after \in {AfterCandidate(b, t, move, num_moves_left)}})

\* The for loop without "new_board = deepcopy(board)" from candidate j on,
\* results being those of the candidates before j.
RECURSIVE CandidateLoopFrom_SharedBoard(_, _, _, _, _, _)
CandidateLoopFrom_SharedBoard(b, t, valid_moves, j, num_moves_left, results) ==
  IF j > Len(valid_moves) THEN [raised |-> "", results |-> results]
  ELSE The({
    IF step.raised # "" THEN [raised |-> step.raised, results |-> <<>>]
    ELSE CandidateLoopFrom_SharedBoard(step.board, step.turn, valid_moves,
                                       j + 1, step.left,
                                       Append(results, step.result)) :
      step \in {CandidateStep(b, t, valid_moves[j], num_moves_left)}})

\* The for loop without "new_board = deepcopy(board)": each candidate is
\* placed on the board the candidates before it have played on.
CandidateLoop_SharedBoard(b, t, valid_moves, j, num_moves_left) ==
  CandidateLoopFrom_SharedBoard(b, t, valid_moves, j, num_moves_left, <<>>)

\* The for loop from candidate j on, results being those of the candidates
\* before j: [raised, results].  Every candidate starts from a copy of the
\* board; an exception ends the loop.
RECURSIVE CandidateLoopFrom(_, _, _, _, _, _)
CandidateLoopFrom(b, t, valid_moves, j, num_moves_left, results) ==
  IF j > Len(valid_moves) THEN [raised |-> "", results |-> results]
  ELSE The({
    IF step.raised # "" THEN [raised |-> step.raised, results |-> <<>>]
    ELSE CandidateLoopFrom(b, t, valid_moves, j + 1, step.left,
                           Append(results, step.result)) :
      step \in {CandidateStep(b, t, valid_moves[j], num_moves_left)}})

\* The for loop from candidate j on: [raised, results].
CandidateLoop(b, t, valid_moves, j, num_moves_left) ==
  CandidateLoopFrom(b, t, valid_moves, j, num_moves_left, <<>>)

\* strong_move_recurse that sorts the results in ascending order and takes
\* the last one: a highest count still, but the last of those that share it.
strong_move_recurse_LastBest(b, t, num_moves_left, move) ==
  IF num_moves_left = 0
  THEN [raised |-> "", move |-> move, count |-> num_pieces(b, black)]
  ELSE The({
    IF loop.raised # ""
    THEN [raised |-> loop.raised, move |-> <<>>, count |-> 0]
    ELSE IF Len(loop.results) = 0
         THEN [raised |-> "IndexError", move |-> <<>>, count |-> 0]
    ELSE The({[raised |-> "", move |-> loop.results[k][1],
               count |-> loop.results[k][2]] :
                k \in {CHOOSE k \in 1..Len(loop.results) :
                         /\ \A i \in 1..Len(loop.results) :
                              loop.results[i][2] <= loop.results[k][2]
                         /\ \A i \in (k + 1)..Len(loop.results) :
                              loop.results[i][2] < loop.results[k][2]}}) :
      loop \in {The({CandidateLoop(b, t, valid_moves, 1, num_moves_left) :
                       valid_moves \in {get_moves(b, t, black)}})}})

strong_move_recurse(b, t, num_moves_left, move) ==
  IF num_moves_left = 0
  THEN [raised |-> "", move |-> move, count |-> num_pieces(b, black)]
  ELSE The({
    IF loop.raised # ""
    THEN [raised |-> loop.raised, move |-> <<>>, count |-> 0]
    ELSE The({
      IF Len(sorted_moves) = 0
      THEN [raised |-> "IndexError", move |-> <<>>, count |-> 0]
      ELSE [raised |-> "", move |-> sorted_moves[1][1],
            count |-> sorted_moves[1][2]] :
        sorted_moves \in {SortedDesc(loop.results, 2)}}) :
      loop \in {The({CandidateLoop(b, t, valid_moves, 1, num_moves_left) :
                       valid_moves \in {get_moves(b, t, black)}})}})

\* The depth each candidate from j on is searched with: the num_moves_left - 1
\* that the for loop of strong_move_recurse passes to the recursive call
\* made for it, num_moves_left being what the iterations before have left
\* in the variable.
RECURSIVE DepthsSearched(_, _, _, _, _)
DepthsSearched(b, t, valid_moves, j, num_moves_left) ==
  IF j > Len(valid_moves) THEN <<>>
  ELSE The({<<after.left - 1>>
              \o DepthsSearched(b, t, valid_moves, j + 1, after.left) :
            after \in {AfterCandidate(b, t, valid_moves[j], num_moves_left)}})

\* ai.strong_move: the search runs on a deep copy of the caller's board.
strong_move(b, t) ==
  The({IF our_move.raised # "" THEN Outcome(our_move.raised, <<>>, b, t)
       ELSE Outcome("", our_move.move, b, t) :
         our_move \in {strong_move_recurse(b, t, MovesInAdvance, <<>>)}})

(* ------------------------ models.py, game.py --------------------------- *)

\* An integer property that was never set: None, which equals no Square.
None == -1

\* The datastore: for each kind of models.py the entities put so far, in
\* the order of their keys.  A query's get() gives the first match.
EmptyStore == [Game |-> <<>>, Lobby |-> <<>>, Account |-> <<>>]

\* A Game entity as AIGamePage.post and MultiGamePage.post put it: moves
\* and winner unset, done at its default.
NewGame(id, size, player1, singleplayer, player2) ==
  [id           |-> id,
   size         |-> size,
   moves        |-> <<>>,
   turn         |-> white,
   board        |-> to_json(makeboard(size).board),
   player1      |-> player1,
   singleplayer |-> singleplayer,
   player2      |-> player2,
   winner       |-> None,
   done         |-> FALSE]

\* json.dumps of an integer.
RECURSIVE DumpsInt(_)
DumpsInt(n) ==
  IF n < 0 THEN <<"-">> \o DumpsInt(-n)
  ELSE IF n < 10 THEN <<Digits[n + 1]>>
  ELSE DumpsInt(n \div 10) \o <<Digits[(n % 10) + 1]>>

\* json.dumps(moves): the move log, a list of lists of integers.
dumps_moves(moves) ==
  DumpsList([j \in 1..Len(moves) |->
               DumpsList([k \in 1..Len(moves[j]) |-> DumpsInt(moves[j][k])])])

\* "if not game.moves: moves = [] else: moves = json.loads(game.moves)"
loads_moves(data) == IF Len(data) = 0 THEN <<>> ELSE LoadsLists(data)

\* '( {}, {} )'.format(a, b)
FormatMove(a, b) ==
  <<"(", " ">> \o DumpsInt(a) \o <<",", " ">> \o DumpsInt(b) \o <<" ", ")">>

\* A response is a dict: a function from its keys.
EmptyDict == [k \in {} |-> 0]

\* d[k] = v
Put(d, k, v) == (k :> v) @@ d

\* d.get(k, default)
Get(d, k, default) == IF k \in DOMAIN d THEN d[k] ELSE default

\* del d[k]
Del(d, k) == [x \in DOMAIN d \ {k} |-> d[x]]

\* Game.query(Game.id == game_id).get(): the key of the first Game with
\* this id, 0 for None.
QueryGame(store, game_id) ==
  IF \E i \in DOMAIN store.Game : store.Game[i].id = game_id
  THEN CHOOSE i \in DOMAIN store.Game :
         /\ store.Game[i].id = game_id
         /\ \A j \in 1..(i - 1) : store.Game[j].id # game_id
  ELSE 0

\* entity.key.delete()
DeleteAt(entities, key) ==
  [j \in 1..(Len(entities) - 1) |->
     IF j < key THEN entities[j] ELSE entities[j + 1]]

\* get_account: the Account with this email, made and put if there is
\* none: the datastore afterwards and the account's key.
get_account(store, email) ==
  IF \E i \in DOMAIN store.Account : store.Account[i].id = email
  THEN [ndb |-> store,
        key |-> CHOOSE i \in DOMAIN store.Account :
                  /\ store.Account[i].id = email
                  /\ \A j \in 1..(i - 1) : store.Account[j].id # email]
  ELSE [ndb |-> [store EXCEPT !.Account =
                   Append(@, [id |-> email, games |-> 0, wins |-> 0,
                              draws |-> 0, losses |-> 0, elo |-> 1200])],
        key |-> Len(store.Account) + 1]

RECURSIVE Pow10(_)
Pow10(n) == IF n <= 0 THEN 1 ELSE 10 * Pow10(n - 1)

\* int(n / d) for d > 0: the fraction is cut off towards zero.
TruncDiv(n, d) == IF n >= 0 THEN n \div d ELSE -((-n) \div d)

k_score == 64

\* update_elo: the two accounts afterwards.  elo/400 is Python 2 integer
\* division; elo + k_score * (score - expect) is the fraction
\* (2 * total * elo + k_score * (2 * score * total - 2 * transform))
\* / (2 * total), which int() cuts off.
update_elo(winner, loser, draw) ==
  LET transform_w == Pow10(winner.elo \div 400)
      transform_l == Pow10(loser.elo \div 400)
      total       == transform_l + transform_w
      score_w2    == IF draw THEN 1 ELSE 2
      score_l2    == IF draw THEN 1 ELSE 0
  IN  <<[winner EXCEPT !.elo =
           TruncDiv(2 * total * winner.elo
                      + k_score * (score_w2 * total - 2 * transform_w),
                    2 * total)],
        [loser EXCEPT !.elo =
           TruncDiv(2 * total * loser.elo
                      + k_score * (score_l2 * total - 2 * transform_l),
                    2 * total)]>>

\* update_rankings(game): the datastore afterwards.  A game that is not
\* done is logged and counted all the same; a winner that is neither the
\* blank marker nor white counts as black.
update_rankings(store, game) ==
  IF game.singleplayer THEN store
  ELSE The({The({
    LET player1 == [with2.ndb.Account[with1.key] EXCEPT !.games = @ + 1]
        player2 == [with2.ndb.Account[with2.key] EXCEPT !.games = @ + 1]
        after   ==
          IF game.winner # blank
          THEN IF game.winner = white
               THEN The({<<elo[1], elo[2]>> :
                      elo \in {update_elo([player1 EXCEPT !.wins = @ + 1],
                                          [player2 EXCEPT !.losses = @ + 1],
                                          FALSE)}})
               ELSE The({<<elo[2], elo[1]>> :
                      elo \in {update_elo([player2 EXCEPT !.wins = @ + 1],
                                          [player1 EXCEPT !.losses = @ + 1],
                                          FALSE)}})
          ELSE update_elo([player1 EXCEPT !.draws = @ + 1],
                          [player2 EXCEPT !.draws = @ + 1], TRUE)
    IN  [with2.ndb EXCEPT !.Account =
           [[@ EXCEPT ![with1.key] = after[1]] EXCEPT ![with2.key] = after[2]]] :
      with2 \in {get_account(with1.ndb, game.player2)}}) :
      with1 \in {get_account(store, game.player1)}})

\* What a handler has done when it ends: the exception it raised ("" if
\* none), whether it wrote its response, the response, the channel messages
\* it sent as <<client, message>>, the datastore, and the Board it built
\* (the one before, if it built none).
Handled(raised, written, response, sent, store, b, t) ==
  [raised |-> raised, written |-> written, response |-> response,
   sent |-> sent, ndb |-> store, board |-> b, turn |-> t]

\* The names MoveRequest.post knows a strategy for.
KnownAIs == {"Novice AI", "Weak AI", "Moderate AI", "Strong AI"}

\* ai_move for the strategy game.player2 names: an Outcome for each value
\* the strategy's random draw can take.
AIMoves(name, b, t) ==
  IF name = "Strong AI" THEN {strong_move(b, t)}
  ELSE The({
    IF name = "Novice AI"
    THEN {novice_move(b, t, x) :
            x \in The({Draws(WeightTotal(inverted, NoviceWeights)) :
                         inverted \in {Inverted(valid_moves)}})}
    ELSE IF name = "Weak AI"
    THEN {weak_move(b, t, i) :
            i \in 0..(IF Len(valid_moves) = 0 THEN 0
                      ELSE Len(valid_moves) - 1)}
    ELSE {moderate_move(b, t, x) :
            x \in Draws(WeightTotal(valid_moves, ModerateWeights))} :
      valid_moves \in {get_moves(b, t, black)}})

\* What the while loop of the single player branch leaves behind.
Replied(raised, returned, b, t, moves, other_can_move, theirmove) ==
  [raised |-> raised, returned |-> returned, board |-> b, turn |-> t,
   moves |-> moves, other_can_move |-> other_can_move,
   theirmove |-> theirmove]

\* The loop with "if" in place of "while": the strategy replies once,
\* whoever is to move afterwards.
AIReplies_Once(name, team, b, t, moves, other_can_move, theirmove) ==
  IF ~(t # team /\ t # blank)
  THEN {Replied("", FALSE, b, t, moves, other_can_move, theirmove)}
  ELSE IF name \notin KnownAIs
  THEN {Replied("", TRUE, b, t, moves, TRUE, theirmove)}
  ELSE UNION {
    IF ai_move.raised # ""
    THEN {Replied(ai_move.raised, FALSE, ai_move.board, ai_move.turn, moves,
                  TRUE, theirmove)}
    ELSE The({
      {Replied("", FALSE, placed.board, placed.turn,
               Append(moves, ai_move.move), TRUE,
               FormatMove(ai_move.move[1] + 1, ai_move.move[2] + 1))} :
        placed \in {add_piece(ai_move.board, ai_move.turn, ai_move.move[1],
                              ai_move.move[2], black)}}) :
      ai_move \in AIMoves(name, b, t)}

\* The while loop of the single player branch: every way it can end, for
\* the draws of the strategy.  returned is the "return" on an unknown AI.
\* A move that add_piece rejects leaves the Board as it was, so the loop can
\* go on for ever; the request is then ended at its deadline.
RECURSIVE AIReplies(_, _, _, _, _, _, _)
AIReplies(name, team, b, t, moves, other_can_move, theirmove) ==
  IF ~(t # team /\ t # blank)
  THEN {Replied("", FALSE, b, t, moves, other_can_move, theirmove)}
  ELSE IF name \notin KnownAIs
  THEN {Replied("", TRUE, b, t, moves, TRUE, theirmove)}
  ELSE UNION {
    IF ai_move.raised # ""
    THEN {Replied(ai_move.raised, FALSE, ai_move.board, ai_move.turn, moves,
                  TRUE, theirmove)}
    ELSE The({
      IF placed.ret = 0 /\ placed.board = b /\ placed.turn = t
      THEN {Replied("DeadlineExceededError", FALSE, b, t,
                    Append(moves, ai_move.move), TRUE, theirmove)}
      ELSE AIReplies(name, team, placed.board, placed.turn,
                     Append(moves, ai_move.move), TRUE,
                     FormatMove(ai_move.move[1] + 1, ai_move.move[2] + 1)) :
        placed \in {add_piece(ai_move.board, ai_move.turn, ai_move.move[1],
                              ai_move.move[2], black)}}) :
      ai_move \in AIMoves(name, b, t)}

\* The game-over branch that marks the game done and leaves its winner
\* unset.
Finished_WinnerUnset(game, winner) == [game EXCEPT !.done = TRUE]

\* The game-over branch of MoveRequest.post: game.done and game.winner, for
\* the winner who_won has returned.
Finished(game, winner) ==
  [game EXCEPT !.done = TRUE,
               !.winner = IF winner = white THEN white
                          ELSE IF winner = black THEN black
                          ELSE blank]

\* MoveRequest.post from "if board.get_turn() != Square.blank" to the end,
\* for one way the replies have ended.
MoveStored(store, key, game, team, player_id, response, replied) ==
  IF replied.raised # ""
  THEN Handled(replied.raised, FALSE, response, <<>>, store,
               replied.board, replied.turn)
  ELSE IF replied.returned
  THEN Handled("", FALSE, response, <<>>, store, replied.board, replied.turn)
  ELSE
    LET response1 == IF Len(replied.theirmove) = 0 THEN response
                     ELSE Put(response, "theirmove", replied.theirmove)
        over      == replied.turn = blank
        winner    == who_won(replied.board, replied.turn)
        response2 ==
          IF ~over
          THEN IF ~replied.other_can_move
               THEN Put(Put(Put(response1,
                      "message", "Opponent can't move. Your turn"),
                      "theirmove", "N/A"),
                      "ourTurn", TRUE)
               ELSE IF game.singleplayer
               THEN Put(Put(response1, "message", "Your Turn"),
                        "ourTurn", TRUE)
               ELSE Put(Put(response1, "message", "Opponent's Turn"),
                        "ourTurn", FALSE)
          ELSE Put(Put(response1, "done", TRUE),
                   "message",
                   IF winner = white THEN "Game Over. White Wins!"
                   ELSE IF winner = black THEN "Game Over. Black Wins!"
                   ELSE "Game Over. It's a Draw!")
        mpresponse1 ==
          IF over \/ game.singleplayer THEN EmptyDict
          ELSE IF ~replied.other_can_move
          THEN Put(Put(Put(EmptyDict,
                 "message", "You can't move. Opponent's turn"),
                 "ourmove", "N/A"),
                 "ourTurn", FALSE)
          ELSE Put(Put(EmptyDict, "message", "Your Turn"), "ourTurn", TRUE)
        game1     == IF ~over THEN game ELSE Finished(game, winner)
        store1    == IF over /\ ~game.singleplayer
                     THEN update_rankings(store, game1)
                     ELSE store
        game2     == [game1 EXCEPT !.moves = dumps_moves(replied.moves),
                                   !.board = to_json(replied.board),
                                   !.turn = replied.turn]
        response3 ==
          Put(Put(Put(response2, "board", game2.board),
                  "whitescore", num_pieces(replied.board, white)),
                  "blackscore", num_pieces(replied.board, black))
        merged    == mpresponse1 @@ response3
        mpresponse2 == Del(Put(merged, "theirmove", merged["ourmove"]),
                           "ourmove")
        mpplayer  == IF player_id = game.player1 THEN game.player2
                     ELSE game.player1
    IN  Handled("", TRUE, response3,
                IF game.singleplayer THEN <<>>
                ELSE <<<<mpplayer, mpresponse2>>>>,
                [store1 EXCEPT !.Game[key] = game2],
                replied.board, replied.turn)

\* The handler without "if points > 0": a placement add_piece has
\* rejected is logged and stored like an accepted one.
MovePlaced_StoresRejected(store, key, game, team, player_id, row, column, moves, placed) ==
  {MoveStored(store, key, game, team, player_id,
              Put(EmptyDict, "ourmove", FormatMove(row + 1, column + 1)),
              replied) :
     replied \in
       IF game.singleplayer
       THEN AIReplies(game.player2, team, placed.board, placed.turn,
                      Append(moves, <<row, column>>), FALSE, <<>>)
       ELSE {Replied("", FALSE, placed.board, placed.turn,
                     Append(moves, <<row, column>>),
                     placed.turn # team, <<>>)}}

\* MoveRequest.post from "points = board.add_piece(row, column, team)" on:
\* every way it can end.
MovePlaced(store, key, game, team, player_id, row, column, moves, placed) ==
  IF placed.ret > 0
  THEN {MoveStored(store, key, game, team, player_id,
                   Put(EmptyDict, "ourmove", FormatMove(row + 1, column + 1)),
                   replied) :
          replied \in
            IF game.singleplayer
            THEN AIReplies(game.player2, team, placed.board, placed.turn,
                           Append(moves, <<row, column>>), FALSE, <<>>)
            ELSE {Replied("", FALSE, placed.board, placed.turn,
                          Append(moves, <<row, column>>),
                          placed.turn # team, <<>>)}}
  ELSE {Handled("", TRUE,
                Put(Put(Put(EmptyDict, "error", TRUE),
                        "message", "That move is illegal"),
                        "ourTurn", TRUE),
                <<>>, store, placed.board, placed.turn)}

\* MoveRequest.post: every way the handler can end.  b and t are the Board
\* built before.  With no game found "elif game.done" is evaluated on None;
\* for a player who is neither player1 nor player2, team is read before it
\* was ever assigned.
MoveRequest_post(store, b, t, game_id, player_id, row, column) ==
  IF QueryGame(store, game_id) = 0
  THEN {Handled("AttributeError", FALSE, EmptyDict, <<>>, store, b, t)}
  ELSE The({
    IF game.done
    THEN {Handled("", TRUE,
                  Put(Put(EmptyDict, "message", "This Game Is Already Over"),
                      "error", TRUE),
                  <<>>, store, b, t)}
    ELSE The({
      IF player_id \notin {game.player1, game.player2}
      THEN {Handled("UnboundLocalError", FALSE, EmptyDict, <<>>, store,
                    loaded.board, loaded.turn)}
      ELSE The({The({
        MovePlaced(store, QueryGame(store, game_id), game, team, player_id,
                   row, column, moves, placed) :
          placed \in {add_piece(loaded.board, loaded.turn, row, column,
                                team)}}) :
          team \in {IF game.player1 = player_id THEN white ELSE black},
          moves \in {loads_moves(game.moves)}}) :
        loaded \in {from_json(game.board, game.turn)}}) :
      game \in {store.Game[QueryGame(store, game_id)]}})

\* ResignRequest.post: how the handler ends.
ResignRequest_post(store, b, t, game_id, player_id) ==
  IF QueryGame(store, game_id) = 0
  THEN Handled("AttributeError", FALSE, EmptyDict, <<>>, store, b, t)
  ELSE The({
    IF game.done
    THEN Handled("", TRUE,
                 Put(Put(EmptyDict, "message", "This Game Is Already Over"),
                     "error", TRUE),
                 <<>>, store, b, t)
    ELSE IF game.player2 = "Nobody"
    THEN Handled("", TRUE,
                 Put(EmptyDict, "message", "You've closed this lobby"), <<>>,
                 [store EXCEPT
                    !.Lobby = IF \E i \in DOMAIN @ : @[i].player = game.player1
                              THEN DeleteAt(@, CHOOSE i \in DOMAIN @ :
                                     /\ @[i].player = game.player1
                                     /\ \A j \in 1..(i - 1) :
                                          @[j].player # game.player1)
                              ELSE @,
                    !.Game = DeleteAt(@, QueryGame(store, game_id))],
                 b, t)
    ELSE The({
      Handled("", TRUE, Put(EmptyDict, "message", "You have resigned"),
              IF game1.singleplayer THEN <<>>
              ELSE <<<<IF game1.player2 = player_id THEN game1.player1
                       ELSE game1.player2,
                       Put(Put(EmptyDict, "message", "Your opponent resigned"),
                           "error", TRUE)>>>>,
              [(IF game1.singleplayer THEN store
                ELSE update_rankings(store, game1))
                 EXCEPT !.Game[QueryGame(store, game_id)] = game1],
              b, t) :
        game1 \in {IF game.player1 = player_id
                   THEN [game EXCEPT !.winner = black, !.done = TRUE]
                   ELSE IF game.player2 = player_id
                   THEN [game EXCEPT !.winner = white, !.done = TRUE]
                   ELSE game}}) :
      game \in {store.Game[QueryGame(store, game_id)]}})

(* ----------------------- the state machine ----------------------------- *)

\* op, args and ret describe the call in progress on the Board: op is
\* "makeboard" right after construction, the method's name between a call
\* and the moment its caller has taken the result, and "idle" afterwards.

Sizes == {2 * h : h \in 1..MaxHalf}

\* Rows and columns a caller may pass: every cell of the largest grid, and
\* one step outside it on either end.
Coords == -1..(2 * MaxHalf)

Ready == op \in {"makeboard", "idle"}

Init ==
  \E size \in Sizes :
    /\ board = makeboard(size).board
    /\ turn = makeboard(size).turn
    /\ op = "makeboard"
    /\ args = <<size>>
    /\ ret = 0
    /\ ndb = EmptyStore

\* board.add_piece(r, c, team)
AddPiece(r, c, team) ==
  /\ Ready
  /\ LET res == add_piece(board, turn, r, c, team)
     IN  /\ board' = res.board
         /\ turn' = res.turn
         /\ ret' = res.ret
  /\ op' = "add_piece"
  /\ args' = <<r, c, team>>
  /\ UNCHANGED ndb

\* board.flip_score(r, c, team)
FlipScore(r, c, team) ==
  /\ Ready
  /\ ret' = flip_score(board, turn, r, c, team)
  /\ board' = FlipScoreCall(board, turn, r, c, team).board
  /\ op' = "flip_score"
  /\ args' = <<r, c, team>>
  /\ UNCHANGED <<turn, ndb>>

\* board.can_flip(r, c, team)
CanFlip(r, c, team) ==
  /\ Ready
  /\ ret' = can_flip(board, turn, r, c, team)
  /\ board' = CanFlipCall(board, turn, r, c, team).board
  /\ op' = "can_flip"
  /\ args' = <<r, c, team>>
  /\ UNCHANGED <<turn, ndb>>

\* board.can_move(team)
CanMove(team) ==
  /\ Ready
  /\ ret' = can_move(board, turn, team)
  /\ board' = CanMoveCall(board, turn, team).board
  /\ op' = "can_move"
  /\ args' = <<team>>
  /\ UNCHANGED <<turn, ndb>>

\* board.who_won()
WhoWon ==
  /\ Ready
  /\ ret' = who_won(board, turn)
  /\ op' = "who_won"
  /\ args' = <<>>
  /\ UNCHANGED <<board, turn, ndb>>

\* A strategy of ai.py has been called with the Board and has returned or
\* raised; ret is its Outcome without the Board.
Strategy(name, outcome) ==
  \E out \in {outcome} :
    /\ board' = out.board
    /\ turn' = out.turn
    /\ ret' = [raised |-> out.raised, move |-> out.move]
    /\ op' = name
    /\ args' = <<>>
    /\ UNCHANGED ndb

\* ai.weak_move(board)
WeakMove ==
  /\ Ready
  /\ \E n \in {Len(get_moves(board, turn, black))} :
       \E i \in (IF n = 0 THEN {0} ELSE 0..(n - 1)) :
         Strategy("weak_move", weak_move(board, turn, i))

\* ai.novice_move(board)
NoviceMove ==
  /\ Ready
  /\ \E valid_moves \in {get_moves(board, turn, black)} :
       \E x \in Draws(WeightTotal(Inverted(valid_moves), NoviceWeights)) :
         Strategy("novice_move", novice_move(board, turn, x))

\* ai.moderate_move(board)
ModerateMove ==
  /\ Ready
  /\ \E valid_moves \in {get_moves(board, turn, black)} :
       \E x \in Draws(WeightTotal(valid_moves, ModerateWeights)) :
         Strategy("moderate_move", moderate_move(board, turn, x))

\* ai.strong_move(board)
StrongMove ==
  /\ Ready
  /\ Strategy("strong_move", strong_move(board, turn))

\* ai._get_moves(board, team)
GetMoves(team) ==
  /\ Ready
  /\ ret' = get_moves(board, turn, team)
  /\ op' = "get_moves"
  /\ args' = <<team>>
  /\ UNCHANGED <<board, turn, ndb>>

\* board.to_json(): the caller holds the text until it loads it again.
ToJson ==
  /\ Ready
  /\ ret' = to_json(board)
  /\ op' = "to_json"
  /\ args' = <<>>
  /\ UNCHANGED <<board, turn, ndb>>

\* Board.from_json(data, t) on the text to_json has just returned: the Board
\* from here on is the one from_json has made.
FromJson(t) ==
  /\ op = "to_json"
  /\ \E remade \in {from_json(ret, t)} :
       /\ board' = remade.board
       /\ turn' = remade.turn
  /\ op' = "from_json"
  /\ args' = <<ret, t>>
  /\ ret' = 0
  /\ UNCHANGED ndb

\* ai._weight_moves_thirds(valid_moves, weights), for the draw x
WeightMovesThirds(valid_moves, weights, x) ==
  /\ Ready
  /\ ret' = weight_moves_thirds(valid_moves, weights, x)
  /\ op' = "weight_moves_thirds"
  /\ args' = <<valid_moves, weights>>
  /\ UNCHANGED <<board, turn, ndb>>

\* What the client of a handler sees of the way it ended.
Answer(handled) ==
  [raised |-> handled.raised, written |-> handled.written,
   response |-> handled.response, sent |-> handled.sent]

\* MoveRequest.post with the parameters gameID, playerID, row and column
Move(game_id, player_id, row, column) ==
  /\ Ready
  /\ \E handled \in MoveRequest_post(ndb, board, turn, game_id, player_id,
                                      row, column) :
       /\ board' = handled.board
       /\ turn' = handled.turn
       /\ ndb' = handled.ndb
       /\ ret' = Answer(handled)
  /\ op' = "MoveRequest.post"
  /\ args' = <<game_id, player_id, row, column>>

\* ResignRequest.post with the parameters gameID and playerID
Resign(game_id, player_id) ==
  /\ Ready
  /\ \E handled \in {ResignRequest_post(ndb, board, turn, game_id,
                                         player_id)} :
       /\ board' = handled.board
       /\ turn' = handled.turn
       /\ ndb' = handled.ndb
       /\ ret' = Answer(handled)
  /\ op' = "ResignRequest.post"
  /\ args' = <<game_id, player_id>>

\* The caller has the result; the Board is ready for the next call.
Return ==
  /\ ~Ready
  /\ op' = "idle"
  /\ args' = <<>>
  /\ ret' = 0
  /\ UNCHANGED <<board, turn, ndb>>

\* Any caller, any arguments, on boards of every size, for the first
\* MaxMoves placements of a game.
Next ==
  \/ /\ Ready
     /\ get_num_moves(board) < MaxMoves
     /\ \E r \in Coords, c \in Coords, team \in Square : AddPiece(r, c, team)
  \/ /\ Ready
     /\ \E r \in Coords, c \in Coords, team \in Square : FlipScore(r, c, team)
  \/ /\ Ready
     /\ \E r \in Coords, c \in Coords, team \in Square : CanFlip(r, c, team)
  \/ /\ Ready
     /\ \E team \in Square : CanMove(team)
  \/ Return

Spec == Init /\ [][Next]_vars

\* A whole game on the board of the tests: the side to move tries each cell
\* in turn (occupied and non-capturing ones are rejected), and the winner is
\* asked for at any moment.
TestSize == 4

InitGame == Init /\ args[1] = TestSize

NextGame ==
  \/ /\ Ready
     /\ \E r \in 0..(TestSize - 1), c \in 0..(TestSize - 1) :
          AddPiece(r, c, turn)
  \/ WhoWon
  \/ Return

SpecGame == InitGame /\ [][NextGame]_vars

\* The first MaxMoves placements of a game on the board of the tests, with
\* a strategy consulted, or the move list of any team asked for, at any
\* moment, whoever is to move.
NextAI ==
  \/ /\ Ready
     /\ get_num_moves(board) < MaxMoves
     /\ \E r \in 0..(TestSize - 1), c \in 0..(TestSize - 1) :
          AddPiece(r, c, turn)
  \/ WeakMove
  \/ NoviceMove
  \/ ModerateMove
  \/ StrongMove
  \/ /\ Ready
     /\ \E team \in Square : GetMoves(team)
  \/ Return

SpecAI == InitGame /\ [][NextAI]_vars

\* The first MaxMovesJson placements of a game on the board of the tests,
\* the Board being saved as JSON and loaded again at any moment, with any
\* turn.
NextJson ==
  \/ /\ Ready
     /\ get_num_moves(board) < MaxMovesJson
     /\ \E r \in 0..(TestSize - 1), c \in 0..(TestSize - 1) :
          AddPiece(r, c, turn)
  \/ ToJson
  \/ \E t \in Square : FromJson(t)
  \/ Return

SpecJson == InitGame /\ [][NextJson]_vars

\* A whole game on the board of the tests in which the side to move plays
\* legal moves only; once the game is over, any caller tries any placement,
\* with any team and out of range too.
NextPlay ==
  \/ /\ Ready
     /\ turn # blank
     /\ \E r \in 0..(TestSize - 1), c \in 0..(TestSize - 1) :
          /\ flip_score(board, turn, r, c, turn) > 0
          /\ AddPiece(r, c, turn)
  \/ /\ Ready
     /\ turn = blank
     /\ \E r \in -1..TestSize, c \in -1..TestSize, team \in Square :
          AddPiece(r, c, team)
  \/ Return

SpecPlay == InitGame /\ [][NextPlay]_vars

\* The server with one game stored, on the board of the tests.  alice has
\* made the game: against a strategy she named (AIGamePage.post takes any
\* name), or as a lobby that bob has joined or has not joined yet.  The
\* clients alice, bob and mallory send move and resign requests for the
\* game and for a game that does not exist; a move request for a game that
\* is not in progress names the corner cell.
Users == {"alice", "bob", "mallory"}

AINames == KnownAIs \cup {"Expert AI"}

GameIDs == {0, 1}

InitServer ==
  /\ board = makeboard(TestSize).board
  /\ turn = makeboard(TestSize).turn
  /\ op = "makeboard"
  /\ args = <<TestSize>>
  /\ ret = 0
  /\ \E get_account_alice \in {get_account(EmptyStore, "alice").ndb} :
       \/ \E ai \in AINames :
            ndb = [get_account_alice EXCEPT
                     !.Game = <<NewGame(0, TestSize, "alice", TRUE, ai)>>]
       \/ ndb = [get_account_alice EXCEPT
                   !.Game = <<NewGame(0, TestSize, "alice", FALSE, "Nobody")>>,
                   !.Lobby = <<[player |-> "alice", elo |-> 1200,
                                game |-> 0]>>]
       \/ ndb = [get_account_alice EXCEPT
                   !.Game = <<NewGame(0, TestSize, "alice", FALSE, "bob")>>]

\* No game in progress has a move log of MaxLog entries or more.
LogOpen ==
  \A i \in DOMAIN ndb.Game :
    ndb.Game[i].done \/ Len(loads_moves(ndb.Game[i].moves)) < MaxLog

\* No account has MaxRankUpdates games counted or more.
RanksOpen ==
  \A i \in DOMAIN ndb.Account : ndb.Account[i].games < MaxRankUpdates

InProgress(game_id) ==
  /\ QueryGame(ndb, game_id) # 0
  /\ ~ndb.Game[QueryGame(ndb, game_id)].done

\* The moves of a game of ten placements on the 4 x 4 board, white and
\* black in turn, after which neither side can move and each holds seven
\* cells.
DrawnGame ==
  <<<<0, 2>>, <<0, 1>>, <<3, 0>>, <<0, 3>>, <<0, 0>>,
    <<3, 1>>, <<2, 0>>, <<3, 3>>, <<3, 2>>, <<1, 3>>>>

\* The player to move of a two player game whose log so far is the
\* beginning of DrawnGame asks for its next move.
NextOfDrawnGame(game_id) ==
  /\ InProgress(game_id)
  /\ \E game \in {ndb.Game[QueryGame(ndb, game_id)]} :
       /\ ~game.singleplayer
       /\ game.player2 \in Users
       /\ \E log \in {loads_moves(game.moves)} :
            /\ Len(log) < Len(DrawnGame)
            /\ log = SubSeq(DrawnGame, 1, Len(log))
            /\ Move(game_id,
                    IF game.turn = white THEN game.player1 ELSE game.player2,
                    DrawnGame[Len(log) + 1][1], DrawnGame[Len(log) + 1][2])

NextServer ==
  \/ /\ Ready
     /\ LogOpen
     /\ \E game_id \in GameIDs, player_id \in Users,
           row \in 0..(TestSize - 1), column \in 0..(TestSize - 1) :
          /\ InProgress(game_id) \/ <<row, column>> = <<0, 0>>
          /\ Move(game_id, player_id, row, column)
  \/ /\ Ready
     /\ RanksOpen
     /\ \E game_id \in GameIDs, player_id \in Users :
          Resign(game_id, player_id)
  \/ /\ Ready
     /\ \E game_id \in GameIDs : NextOfDrawnGame(game_id)
  \/ Return

SpecServer == InitServer /\ [][NextServer]_vars

\* The move lists _get_moves can hand to a strategy: up to MaxListLen moves
\* on distinct cells, each capturing 1..MaxScore pieces, in descending
\* order of score.
MoveLists ==
  UNION {{[j \in 1..len |->
             <<(j - 1) \div TestSize, (j - 1) % TestSize, scores[j]>>] :
            scores \in {sc \in [1..len -> 1..MaxScore] :
                          \A j \in 1..(len - 1) : sc[j] >= sc[j + 1]}} :
           len \in 1..MaxListLen}

\* _weight_moves_thirds as its two callers call it: Moderate with the move
\* list and its weights, Novice with the inverted scores and its weights,
\* for every value of the random draw.
NextWeights ==
  \/ /\ Ready
     /\ \E valid_moves \in MoveLists :
          \E x \in Draws(WeightTotal(valid_moves, ModerateWeights)) :
            WeightMovesThirds(valid_moves, ModerateWeights, x)
  \/ /\ Ready
     /\ \E valid_moves \in MoveLists :
          \E x \in Draws(WeightTotal(Inverted(valid_moves), NoviceWeights)) :
            WeightMovesThirds(Inverted(valid_moves), NoviceWeights, x)
  \/ Return

SpecWeights == InitGame /\ [][NextWeights]_vars

(* ------------------- the rules of the game, as stated ------------------ *)

Cells(b) == (0..(get_size(b) - 1)) \X (0..(get_size(b) - 1))

InGrid(b, r, c) == <<r, c>> \in Cells(b)

\* The cell n steps from (r, c) in direction d.
Step(r, c, d, n) == <<r + n * d[1], c + n * d[2]>>

\* The run of n >= 1 cells from (r, c) in direction d is bracketed for side:
\* all n cells hold the other colour and the cell after them holds side.
Bracketed(b, r, c, d, n, side) ==
  /\ \A i \in 1..n :
        /\ Step(r, c, d, i) \in Cells(b)
        /\ b[Step(r, c, d, i)[1]][Step(r, c, d, i)[2]] \in {white, black} \ {side}
  /\ Step(r, c, d, n + 1) \in Cells(b)
  /\ b[Step(r, c, d, n + 1)[1]][Step(r, c, d, n + 1)[2]] = side

\* The cells a placement of side at (r, c) captures.
Captured(b, r, c, side) ==
  UNION {{Step(r, c, x[1], i) : i \in 1..x[2]} :
           x \in {y \in Directions \X (1..get_size(b)) :
                    Bracketed(b, r, c, y[1], y[2], side)}}

\* A placement the rules accept.
Legal(b, t, r, c, team) ==
  /\ InGrid(b, r, c)
  /\ b[r][c] = blank
  /\ team = t
  /\ team \in {white, black}
  /\ Captured(b, r, c, team) # {}

\* side has a capturing placement somewhere on the grid.
HasCapture(b, side) ==
  \E p \in Cells(b) : b[p[1]][p[2]] = blank /\ Captured(b, p[1], p[2], side) # {}

Other(side) == IF side = white THEN black ELSE white

(* ------------------------------ claims --------------------------------- *)

\* C1: a rejected placement is a no-op.  Whenever add_piece(r, c, team) is
\* called with (r, c) out of range, or on a cell that is not blank, or by a
\* team whose turn it is not, or where nothing would be captured, it returns
\* 0 and the grid and the turn are what they were before the call.
C1_RejectedIsNoOp ==
  [][(op' = "add_piece" /\ ~Legal(board, turn, args'[1], args'[2], args'[3]))
       => (ret' = 0 /\ board' = board /\ turn' = turn)]_vars

\* A rejected call of each kind has been made: here one on a blank cell, by
\* the side to move, in the middle of a game, that captures nothing.
C1_Witness ==
  /\ op = "add_piece"
  /\ ret = 0
  /\ get_num_moves(board) > 0
  /\ InGrid(board, args[1], args[2])
  /\ args[3] = turn
  /\ board[args[1]][args[2]] = blank

\* C2: a successful add_piece(r, c, side) returns the number k >= 1 of
\* captured cells; afterwards (r, c) holds side, exactly the captured cells
\* have changed from the other colour to side, every other cell is unchanged,
\* count(side) has risen by k + 1 and count(other) has fallen by k.
C2_SuccessfulPlacement ==
  [][(op' = "add_piece" /\ Legal(board, turn, args'[1], args'[2], args'[3]))
       => LET r    == args'[1]
              c    == args'[2]
              side == args'[3]
              caps == Captured(board, r, c, side)
              k    == Cardinality(caps)
          IN  /\ ret' = k
              /\ k >= 1
              /\ board'[r][c] = side
              /\ \A p \in caps : /\ board[p[1]][p[2]] = Other(side)
                                 /\ board'[p[1]][p[2]] = side
              /\ \A p \in Cells(board) \ (caps \cup {<<r, c>>}) :
                   board'[p[1]][p[2]] = board[p[1]][p[2]]
              /\ num_pieces(board', side) = num_pieces(board, side) + k + 1
              /\ num_pieces(board', Other(side))
                   = num_pieces(board, Other(side)) - k]_vars

\* A placement that captured along more than one ray has been made.
C2_Witness ==
  /\ op = "add_piece"
  /\ ret >= 3
  /\ board[args[1]][args[2]] = args[3]

\* C3: in every state reached from makeboard(N), N even, by add_piece calls,
\* the turn is the terminal marker if and only if neither white nor black
\* has a capturing placement on the grid.
C3_TerminalIffNoMoves ==
  (turn = blank) <=> (~HasCapture(board, white) /\ ~HasCapture(board, black))

\* C4: after a successful add_piece by side S the turn is the other side if
\* the other side has a capturing placement on the new grid, else S if S has
\* one, else the terminal marker.
C4_TurnAdvancement ==
  [][(op' = "add_piece" /\ Legal(board, turn, args'[1], args'[2], args'[3]))
       => LET S == args'[3]
          IN  turn' = IF HasCapture(board', Other(S)) THEN Other(S)
                      ELSE IF HasCapture(board', S) THEN S
                      ELSE blank]_vars

\* A placement after which the other side cannot move and the mover moves
\* again.
C4_Witness ==
  /\ op = "add_piece"
  /\ ret > 0
  /\ turn = args[3]
  /\ ~HasCapture(board, Other(turn))

\* C5: flip_score(r, c, side) is the number of cells bracketed along the
\* eight rays from (r, c) when (r, c) is in range and blank and side is to
\* move, and 0 otherwise.
C5_FlipScore ==
  op = "flip_score" =>
    ret = IF /\ InGrid(board, args[1], args[2])
             /\ board[args[1]][args[2]] = blank
             /\ args[3] = turn
             /\ args[3] \in {white, black}
          THEN Cardinality(Captured(board, args[1], args[2], args[3]))
          ELSE 0

\* flip_score has returned a score made of several rays.
C5_Witness ==
  /\ op = "flip_score"
  /\ ret >= 3

\* C6: who_won is decided by the piece counts when, and only when, the game
\* is over: with the turn at the terminal marker it returns white if there
\* are more white pieces, black if more black, the blank marker if equal
\* (blank cells may remain); otherwise it returns -1, which is no Square.
C6_WhoWon ==
  op = "who_won" =>
    /\ ret = IF turn # blank THEN -1
             ELSE IF num_pieces(board, white) > num_pieces(board, black)
                  THEN white
             ELSE IF num_pieces(board, black) > num_pieces(board, white)
                  THEN black
             ELSE blank
    /\ turn # blank => ret \notin Square

\* who_won has reported a draw on a board that still has blank cells.
C6_Witness ==
  /\ op = "who_won"
  /\ turn = blank
  /\ ret = blank
  /\ get_squares_left(board) > 0

\* C7: for every even N, makeboard(N) is an N x N grid with exactly 2 white,
\* 2 black and N * N - 4 blank cells: (N/2-1, N/2-1) and (N/2, N/2) white,
\* (N/2-1, N/2) and (N/2, N/2-1) black, every other cell blank; the turn is
\* white.
C7_InitialBoard ==
  op = "makeboard" =>
    LET N == args[1]
        h == N \div 2
    IN  /\ DOMAIN board = 0..(N - 1)
        /\ \A r \in 0..(N - 1) : DOMAIN board[r] = 0..(N - 1)
        /\ num_pieces(board, white) = 2
        /\ num_pieces(board, black) = 2
        /\ get_squares_left(board) = N * N - 4
        /\ \A r \in 0..(N - 1), c \in 0..(N - 1) :
             board[r][c] =
               IF <<r, c>> \in {<<h - 1, h - 1>>, <<h, h>>} THEN white
               ELSE IF <<r, c>> \in {<<h - 1, h>>, <<h, h - 1>>} THEN black
               ELSE blank
        /\ turn = white

\* A board larger than the smallest has been constructed.
C7_Witness ==
  /\ op = "makeboard"
  /\ args[1] > 2
  /\ get_squares_left(board) > 0

Strategies == {"weak_move", "novice_move", "moderate_move", "strong_move"}

\* The move in ret is a placement the rules accept from side.
ReturnsLegalMove(side) ==
  /\ ret.raised = ""
  /\ Len(ret.move) >= 2
  /\ Legal(board, turn, ret.move[1], ret.move[2], side)
  /\ add_piece(board, turn, ret.move[1], ret.move[2], side).ret > 0

\* C8: whenever black is the side to move and has a legal move, each of
\* weak_move, novice_move, moderate_move and strong_move returns without
\* raising, and the (row, col) it returns is a legal move for black:
\* add_piece with it returns more than 0.
C8_StrategyReturnsLegalMove ==
  (op \in Strategies /\ turn = black /\ HasCapture(board, black))
    => ReturnsLegalMove(black)

\* Novice has returned a move although every weight was 0 (all of black's
\* moves capture equally many), which is the case the clamp is there for.
C8_Witness ==
  /\ op = "novice_move"
  /\ turn = black
  /\ ret.raised = ""
  /\ Len(get_moves(board, turn, black)) >= 2
  /\ WeightTotal(Inverted(get_moves(board, turn, black)), NoviceWeights) = 0

\* C9, as claimed: each strategy chooses among the legal moves of the side
\* whose turn it is, white as well as black.
C9_AnySideToMove ==
  (op \in Strategies /\ turn \in {white, black} /\ HasCapture(board, turn))
    => ReturnsLegalMove(turn)

\* C9, amended: the strategies play black only.  With black to move and able
\* to move they return a legal move for black; with white to move they
\* return no move at all, whatever white could play, and raise instead.
C9_BlackOnly ==
  op \in Strategies =>
    /\ (turn = black /\ HasCapture(board, black)) => ReturnsLegalMove(black)
    /\ turn = white => (ret.raised # "" /\ ret.move = <<>>)

\* A strategy has been called with white to move and able to move.
C9_Witness ==
  /\ op \in Strategies
  /\ turn = white
  /\ HasCapture(board, white)
  /\ ret.raised # ""

\* C10: a strategy called on a board for which the enumerated move list is
\* empty raises an error, returns no (row, col), and leaves the board passed
\* in as it was.
C10_EmptyListFailsLoudly ==
  [][(op' \in Strategies /\ get_moves(board, turn, black) = <<>>)
       => /\ ret'.raised \in {"IndexError", "ValueError"}
          /\ ret'.move = <<>>
          /\ board' = board
          /\ turn' = turn]_vars

\* Each strategy's failure has been seen; here Moderate's, after the game
\* has ended.
C10_Witness ==
  /\ op = "moderate_move"
  /\ turn = blank
  /\ ret.raised = "IndexError"

\* C11: _get_moves(board, team) returns exactly the cells whose capture score
\* for team is not 0, each once and with its score, in descending order of
\* score; cells of equal score come in row-major order (row ascending, then
\* column ascending).
C11_GetMoves ==
  op = "get_moves" =>
    LET team == args[1]
        n    == Len(ret)
    IN  /\ {<<ret[j][1], ret[j][2]>> : j \in 1..n}
             = {p \in Cells(board) : Legal(board, turn, p[1], p[2], team)}
        /\ \A i \in 1..n, j \in 1..n :
             (ret[i][1] = ret[j][1] /\ ret[i][2] = ret[j][2]) => i = j
        /\ \A j \in 1..n :
             /\ Len(ret[j]) = 3
             /\ ret[j][3] = Cardinality(Captured(board, ret[j][1], ret[j][2],
                                                 team))
             /\ ret[j][3] # 0
        /\ \A i \in 1..n, j \in 1..n :
             i < j => \/ ret[i][3] > ret[j][3]
                      \/ /\ ret[i][3] = ret[j][3]
                         /\ \/ ret[i][1] < ret[j][1]
                            \/ /\ ret[i][1] = ret[j][1]
                               /\ ret[i][2] < ret[j][2]

\* A list in which the sort has moved a later cell in front of earlier ones,
\* and which has two cells of equal score.
C11_Witness ==
  /\ op = "get_moves"
  /\ Len(ret) >= 3
  /\ \E i \in 1..Len(ret), j \in 1..Len(ret) :
       /\ i < j
       /\ ret[i][3] > ret[j][3]
       /\ \/ ret[i][1] > ret[j][1]
          \/ (ret[i][1] = ret[j][1] /\ ret[i][2] > ret[j][2])
  /\ \E i \in 1..Len(ret), j \in 1..Len(ret) :
       i < j /\ ret[i][3] = ret[j][3]

\* The (row, col) pairs Novice can return on board b with t to move, over
\* every value of the random draw.
NoviceReturns(b, t) ==
  UNION {{<<m.move[1], m.move[2]>> :
            m \in {o \in {novice_move(b, t, x) :
                             x \in Draws(WeightTotal(Inverted(valid_moves),
                                                     NoviceWeights))} :
                     o.raised = ""}} :
           valid_moves \in {get_moves(b, t, black)}}

\* C12: Novice never excludes a legal move.  On every board on which black
\* is to move and has legal moves, every legal move of black is a possible
\* return value of novice_move: some value of the random draw selects it.
C12_NoviceExcludesNoMove ==
  (op = "novice_move" /\ turn = black /\ HasCapture(board, black))
    => \A p \in Cells(board) :
         Legal(board, turn, p[1], p[2], black) => p \in NoviceReturns(board, turn)

\* The position, from 1, of the cell of move in the list moves; 0 if absent.
PositionOf(move, moves) ==
  IF \E j \in 1..Len(moves) : moves[j][1] = move[1] /\ moves[j][2] = move[2]
  THEN CHOOSE j \in 1..Len(moves) :
         moves[j][1] = move[1] /\ moves[j][2] = move[2]
  ELSE 0

\* C13: with the weights [5, 2, 0] of Moderate and at least 3 legal moves, a
\* move in the bottom third of the score-sorted list (its last floor(len/3)
\* positions) is never returned, whatever the random draw.
C13_BottomThirdNeverReturned ==
  (op = "moderate_move" /\ turn = black
     /\ Len(get_moves(board, turn, black)) >= 3)
    => \E valid_moves \in {get_moves(board, turn, black)} :
         /\ ret.raised = ""
         /\ PositionOf(ret.move, valid_moves)
              <= Len(valid_moves) - (Len(valid_moves) \div 3)

\* C15: serialization round-trips and reconstruction does not recompute the
\* turn.  For every reachable board b and every turn value t,
\* from_json(to_json(b), t) has a grid of the same size as b's and equal to
\* it cell for cell, every cell in {0, 1, 2}, and its turn is t as supplied,
\* even when t is not the turn the grid would imply.
C15_JsonRoundTrip ==
  [][op' = "from_json"
       => /\ args'[1] = to_json(board)
          /\ DOMAIN board' = DOMAIN board
          /\ get_size(board') = get_size(board)
          /\ \A r \in DOMAIN board :
               /\ DOMAIN board'[r] = DOMAIN board[r]
               /\ \A c \in DOMAIN board[r] :
                    board'[r][c] = board[r][c] /\ board'[r][c] \in Square
          /\ turn' = args'[2]]_vars

\* A board in play has been loaded with the terminal marker as its turn
\* although white, whose turn it was, has a capturing placement.
C15_Witness ==
  /\ op = "from_json"
  /\ get_num_moves(board) >= 2
  /\ get_size(board) = 4
  /\ turn = blank
  /\ args[2] = blank
  /\ HasCapture(board, white)
  /\ HasCapture(board, black)

\* C16: starting from makeboard(N), after any sequence of add_piece calls
\* get_num_moves() is the number of those calls that succeeded (returned
\* more than 0).  It is 0 on the board makeboard returns; each successful
\* call lowers get_squares_left() by exactly 1 and raises get_num_moves()
\* by 1, each rejected call and every other call leaves both as they were.
C16_NumMovesCountsSuccesses ==
  /\ [](op = "makeboard" => get_num_moves(board) = 0)
  /\ [][LET succeeded == IF op' = "add_piece" /\ ret' > 0 THEN 1 ELSE 0
        IN  /\ get_squares_left(board') = get_squares_left(board) - succeeded
            /\ get_num_moves(board') = get_num_moves(board) + succeeded]_vars

\* A call has been rejected after three have succeeded, on the side to
\* move's own request for a blank cell.
C16_Witness ==
  /\ op = "add_piece"
  /\ ret = 0
  /\ get_num_moves(board) = 3
  /\ get_squares_left(board) = get_size(board) * get_size(board) - 7
  /\ args[3] = turn

\* C17: after every add_piece call, successful or rejected, num_pieces(white)
\* + num_pieces(black) + get_squares_left() is N * N, and every cell holds
\* one of the three Square values.
C17_CellsAccountedFor ==
  op = "add_piece" =>
    /\ num_pieces(board, white) + num_pieces(board, black)
         + get_squares_left(board) = get_size(board) * get_size(board)
    /\ \A r \in 0..(get_size(board) - 1), c \in 0..(get_size(board) - 1) :
         board[r][c] \in Square

\* Black has just captured at least two white pieces and is ahead, with
\* blank cells left.
C17_Witness ==
  /\ op = "add_piece"
  /\ args[3] = black
  /\ ret >= 2
  /\ num_pieces(board, black) > num_pieces(board, white)
  /\ get_squares_left(board) > 0

\* The candidate move's line, black's placement followed by white's replies,
\* ends the game.
ReachesTerminal(b, t, move) ==
  AfterCandidate(b, t, move, MovesInAdvance).turn = blank

\* C18: in the Strong search a candidate whose line reaches the terminal
\* state is evaluated without further recursion, and the cut-off applies to
\* that branch only: every other candidate of the ply, those examined after
\* it included, is searched with the full remaining depth.
C18_CutOffIsPerBranch ==
  (op = "strong_move" /\ turn = black)
    => \E valid_moves \in {get_moves(board, turn, black)} :
         \E depths \in {DepthsSearched(board, turn, valid_moves, 1,
                                       MovesInAdvance)} :
           \A j \in 1..Len(valid_moves) :
             depths[j] = IF ReachesTerminal(board, turn, valid_moves[j])
                         THEN 0
                         ELSE MovesInAdvance - 1

\* The index of the first result with the highest count.
FirstBest(results) ==
  CHOOSE k \in 1..Len(results) :
    /\ \A i \in 1..Len(results) : results[i][2] <= results[k][2]
    /\ \A i \in 1..(k - 1) : results[i][2] < results[k][2]

\* best_move, which strong_move_recurse has returned for board b at depth n,
\* is the first of the candidates with the highest resulting count.
ReturnsFirstBest(b, t, n, best_move) ==
  \E valid_moves \in {get_moves(b, t, black)} :
    \E loop \in {CandidateLoop(b, t, valid_moves, 1, n)} :
      /\ loop.raised = ""
      /\ Len(loop.results) = Len(valid_moves)
      /\ \A j \in 1..Len(valid_moves) :
           /\ loop.results[j][1] = valid_moves[j]
           /\ n = 1 => loop.results[j][2]
                         = num_pieces(AfterCandidate(b, t, valid_moves[j],
                                                     n).board, black)
      /\ best_move = valid_moves[FirstBest(loop.results)]

\* C19: at every ply of depth 1 or more strong_move_recurse returns the
\* candidate whose resulting black piece count, the count on the board
\* reached when the depth is exhausted, is the highest among all of black's
\* legal candidates at that ply, and among candidates of equal resulting
\* count the one that comes first in the move list sorted by descending
\* capture score; so the move strong_move returns is one of black's legal
\* moves on the original board.
C19_StrongReturnsFirstBest ==
  (op = "strong_move" /\ turn = black /\ HasCapture(board, black))
    => /\ ret.raised = ""
       /\ ReturnsFirstBest(board, turn, MovesInAdvance, ret.move)
       /\ \A n \in 1..(MovesInAdvance - 1) :
            \E best \in {strong_move_recurse(board, turn, n, <<>>)} :
              /\ best.raised = ""
              /\ ReturnsFirstBest(board, turn, n, best.move)
       /\ Legal(board, turn, ret.move[1], ret.move[2], black)

\* The search has returned the first of two candidates that share the
\* highest count, with a candidate of lower count in front of them.
C19_Witness ==
  /\ op = "strong_move"
  /\ turn = black
  /\ ret.raised = ""
  /\ \E valid_moves \in {get_moves(board, turn, black)} :
       \E loop \in {CandidateLoop(board, turn, valid_moves, 1,
                                  MovesInAdvance)} :
         \E k \in {FirstBest(loop.results)} :
           /\ k > 1
           /\ ret.move = valid_moves[k]
           /\ \E j \in (k + 1)..Len(valid_moves) :
                loop.results[j][2] = loop.results[k][2]

\* side's highest-scoring legal placement on b, the first in row-major order
\* of those that capture the most.
BestCell(b, side) ==
  CHOOSE p \in Cells(b) :
    /\ Legal(b, side, p[1], p[2], side)
    /\ \A q \in Cells(b) :
         Legal(b, side, q[1], q[2], side)
           => LET kp == Cardinality(Captured(b, p[1], p[2], side))
                  kq == Cardinality(Captured(b, q[1], q[2], side))
              IN  \/ kp > kq
                  \/ /\ kp = kq
                     /\ (p[1] < q[1] \/ (p[1] = q[1] /\ p[2] <= q[2]))

\* The grid and the turn once white, while the turn is white's and white can
\* capture, has placed at its BestCell again and again.
RECURSIVE BestReplies(_, _)
BestReplies(b, t) ==
  IF t # white \/ ~HasCapture(b, white) THEN [board |-> b, turn |-> t]
  ELSE The({BestReplies(res.board, res.turn) :
              res \in {The({add_piece(b, t, p[1], p[2], white) :
                               p \in {BestCell(b, white)}})}})

\* The reply loop after black's candidate move: it has not raised, it ends
\* where BestReplies ends, with black to move or the game over, after at
\* most as many replies as there were blank cells.
ReplyLoopEnds(b, t, move) ==
  \E placed \in {add_piece(b, t, move[1], move[2], black)} :
    \E after \in {AfterCandidate(b, t, move, MovesInAdvance)} :
      /\ placed.ret > 0
      /\ after.raised = ""
      /\ after.turn \in {black, blank}
      /\ after.board = BestReplies(placed.board, placed.turn).board
      /\ after.turn = BestReplies(placed.board, placed.turn).turn
      /\ get_num_moves(after.board) - get_num_moves(placed.board)
           \in 0..get_squares_left(placed.board)

\* C20: in the Strong search, after each candidate move of its own the
\* opponent replies with the first element of its score-sorted legal-move
\* list for as long as the turn is the opponent's; the reply loop always
\* terminates, never finds the opponent's move list empty, and when it is
\* left the turn of the cloned board is black or the terminal marker.
C20_ReplyLoop ==
  (op = "strong_move" /\ turn = black)
    => /\ ret.raised = ""
       /\ \E valid_moves \in {get_moves(board, turn, black)} :
            \A j \in 1..Len(valid_moves) :
              ReplyLoopEnds(board, turn, valid_moves[j])

\* A candidate after which white has replied twice in a row, black having
\* had to pass in between.
C20_Witness ==
  /\ op = "strong_move"
  /\ turn = black
  /\ \E valid_moves \in {get_moves(board, turn, black)} :
       \E j \in 1..Len(valid_moves) :
         get_num_moves(AfterCandidate(board, turn, valid_moves[j],
                                      MovesInAdvance).board)
           >= get_num_moves(board) + 3

\* The result the for loop records for each candidate is the one reached by
\* placing that candidate, and white's replies to it, on board b itself: at
\* depth 1 the black count after BestReplies, at depth n the result of the
\* search one ply down from there.
CandidatesStartFrom(b, t, n) ==
  \E valid_moves \in {get_moves(b, t, black)} :
    \E loop \in {CandidateLoop(b, t, valid_moves, 1, n)} :
      \E depths \in {DepthsSearched(b, t, valid_moves, 1, n)} :
        /\ loop.raised = ""
        /\ Len(loop.results) = Len(valid_moves)
        /\ \A j \in 1..Len(valid_moves) :
             \E placed \in {add_piece(b, t, valid_moves[j][1],
                                       valid_moves[j][2], black)} :
               \E end \in {BestReplies(placed.board, placed.turn)} :
                 /\ placed.ret > 0
                 /\ loop.results[j][2]
                      = strong_move_recurse(end.board, end.turn, depths[j],
                                            valid_moves[j]).count
                 /\ n = 1 => loop.results[j][2] = num_pieces(end.board, black)

\* C21: the Strong search works only on independent clones.  After
\* strong_move(board) returns, the caller's board has the grid and the turn
\* it had before the call, and within the search a placement made on one
\* candidate's clone is never visible on the board used for a sibling
\* candidate or for the parent ply: every candidate is evaluated from the
\* parent's board as it was when the ply began.
C21_StrongWorksOnClones ==
  [][op' = "strong_move"
       => /\ board' = board
          /\ turn' = turn
          /\ turn = black
               => /\ CandidatesStartFrom(board, turn, 1)
                  /\ CandidatesStartFrom(board, turn, MovesInAdvance)]_vars

\* The search has run over three candidates or more, placing each and at
\* least one white reply on a clone, and has returned a move.
C21_Witness ==
  /\ op = "strong_move"
  /\ turn = black
  /\ ret.raised = ""
  /\ Len(get_moves(board, turn, black)) >= 3
  /\ \A j \in 1..Len(get_moves(board, turn, black)) :
       get_num_moves(AfterCandidate(board, turn,
                                    get_moves(board, turn, black)[j],
                                    MovesInAdvance).board)
         >= get_num_moves(board) + 2

\* The moves _weight_moves_thirds can return for the list and the weights,
\* over every draw in [0, total).
ThirdsReturns(valid_moves, weights) ==
  {weight_moves_thirds(valid_moves, weights, x).move :
     x \in Draws(WeightTotal(valid_moves, weights))}

\* C22: for _weight_moves_thirds over any non-empty move list and any draw
\* in [0, total): if the total reweighted score is more than 0, the moves
\* that can be returned are exactly the moves whose reweighted score is more
\* than 0, and a move of weight 0 is never returned; if every reweighted
\* score is 0, the last move of the list is returned.
C22_PositiveWeightsReturned ==
  op = "weight_moves_thirds" =>
    \E w \in {Weighted(args[1], args[2])} :
      \E total \in {WeightTotal(args[1], args[2])} :
        /\ ret.raised = ""
        /\ \E j \in 1..Len(w) : ret.move = w[j]
        /\ total > 0 =>
             /\ ret.move[3] > 0
             /\ ThirdsReturns(args[1], args[2])
                  = {w[j] : j \in {i \in 1..Len(w) : w[i][3] > 0}}
        /\ total = 0 => ret.move = w[Len(w)]

\* Novice's case: the first two moves of the list tie for the top score, so
\* their inverted score and their weight are 0, and the third move, the
\* first of positive weight, has been returned.
C22_Witness ==
  /\ op = "weight_moves_thirds"
  /\ Len(args[1]) >= 4
  /\ args[1][1][3] = 0
  /\ args[1][2][3] = 0
  /\ WeightTotal(args[1], args[2]) > 0
  /\ ret.move = Weighted(args[1], args[2])[3]

\* C23: legality probes have no effect on board state.  can_move(side),
\* can_flip(r, c, side) and flip_score(r, c, side) leave the grid and the
\* turn unchanged for every argument; the probing done inside turn
\* advancement changes no cell of the grid the piece was placed on, and the
\* turn it leaves is the last value computed, the side that moves next,
\* never a value set for a probe.
C23_ProbesHaveNoEffect ==
  [][/\ op' \in {"can_move", "can_flip", "flip_score"}
          => (board' = board /\ turn' = turn)
     /\ (op' = "add_piece" /\ ret' > 0)
          => \E steps \in {SetNextTurnSteps(board', args'[3])} :
               /\ steps.board = board'
               /\ turn' = steps.turns[Len(steps.turns)]
               /\ turn' = IF HasCapture(board', Other(args'[3]))
                          THEN Other(args'[3])
                          ELSE IF HasCapture(board', args'[3]) THEN args'[3]
                          ELSE blank]_vars

\* flip_score has counted captures for the side to move and left the board
\* alone.
C23_Witness ==
  /\ op = "flip_score"
  /\ ret >= 2
  /\ args[3] = turn
  /\ get_num_moves(board) >= 2

\* C24: the terminal state is absorbing.  Once the turn is the terminal
\* marker, every add_piece(r, c, team) call, for every cell and every team
\* value, the blank marker itself included, returns 0 and leaves grid and
\* turn unchanged, so the turn stays terminal for ever.
C24_TerminalIsAbsorbing ==
  [][turn = blank
       => /\ turn' = blank
          /\ board' = board
          /\ op' = "add_piece" => ret' = 0]_vars

\* After the game has ended with blank cells left, the blank marker itself
\* has asked for one of them.
C24_Witness ==
  /\ op = "add_piece"
  /\ turn = blank
  /\ args[3] = blank
  /\ InGrid(board, args[1], args[2])
  /\ board[args[1]][args[2]] = blank
  /\ ret = 0

\* C25: every game ends.  From makeboard(N) with N >= 4, a sequence of
\* successful add_piece calls is at most N * N - 4 long, each of them
\* filling one blank cell; and no reachable state that is not terminal is
\* stuck: the side to move has a legal move, so that a side that keeps
\* playing legal moves reaches the terminal turn marker, at the latest when
\* the grid is full.
C25_EveryGameEnds ==
  /\ [](/\ get_num_moves(board) <= get_size(board) * get_size(board) - 4
        /\ turn # blank => HasCapture(board, turn)
        /\ get_squares_left(board) = 0 => turn = blank)
  /\ [][(op' = "add_piece" /\ ret' > 0)
          => get_squares_left(board') = get_squares_left(board) - 1]_vars

\* A game has ended with blank cells left on the grid.
C25_Witness ==
  /\ turn = blank
  /\ op = "add_piece"
  /\ ret > 0
  /\ get_squares_left(board) >= 2

\* C26: can_move(side) depends on the turn field.  It returns true if and
\* only if side is the side to move and some blank cell in range has a
\* capture score above 0 for side; for a side that is not to move it returns
\* false whatever the grid, also when that side has capturing placements.
C26_CanMoveNeedsTheTurn ==
  op = "can_move" =>
    /\ ret = (/\ args[1] = turn
              /\ \E p \in Cells(board) :
                   /\ board[p[1]][p[2]] = blank
                   /\ flip_score(board, turn, p[1], p[2], args[1]) > 0
                   /\ Captured(board, p[1], p[2], args[1]) # {})
    /\ args[1] # turn => ret = FALSE

\* can_move has answered false for a side that is not to move and has a
\* capturing placement.
C26_Witness ==
  /\ op = "can_move"
  /\ ret = FALSE
  /\ args[1] \in {white, black}
  /\ args[1] # turn
  /\ turn # blank
  /\ HasCapture(board, args[1])

\* The Game entity that a request for game_id finds.
Stored(store, game_id) == store.Game[QueryGame(store, game_id)]

\* The team MoveRequest.post gives a player of the game.
TeamOf(game, player_id) == IF game.player1 = player_id THEN white ELSE black

\* request = <<gameID, playerID, row, column>> names a game in progress,
\* one of its players, and a placement the rules accept from that player
\* on the stored board.
Accepted(store, request) ==
  /\ QueryGame(store, request[1]) # 0
  /\ \E game \in {Stored(store, request[1])} :
       /\ ~game.done
       /\ request[2] \in {game.player1, game.player2}
       /\ \E loaded \in {from_json(game.board, game.turn)} :
            Legal(loaded.board, loaded.turn, request[3], request[4],
                  TeamOf(game, request[2]))

\* The entries of log from number k on, played by black one after the
\* other from board b: whether each was a placement the rules accept, and
\* the Board they lead to.
RECURSIVE Replayed(_, _, _, _)
Replayed(b, t, log, k) ==
  IF k > Len(log) THEN [legal |-> TRUE, board |-> b, turn |-> t]
  ELSE IF ~Legal(b, t, log[k][1], log[k][2], black)
       THEN [legal |-> FALSE, board |-> b, turn |-> t]
  ELSE The({Replayed(placed.board, placed.turn, log, k + 1) :
              placed \in {add_piece(b, t, log[k][1], log[k][2], black)}})

\* C27: the AI replies until the human can move.  In a single player game
\* a move request of the human (player1, white) that the rules accept makes
\* the handler end without an exception and without running into its
\* deadline; the turn stored afterwards is white or the terminal marker,
\* never black, and when it is white, white has a capturing placement on
\* the stored board.  The stored move log is the log before, the human's
\* move, and then moves that were each a legal placement by black on the
\* board of its moment, and the stored board and turn are where these moves
\* lead; only when the game names no known strategy and the human's move
\* leaves black to move is nothing stored at all.
C27_AIRepliesUntilHumanCanMove ==
  [][(/\ op' = "MoveRequest.post"
      /\ Accepted(ndb, args')
      /\ Stored(ndb, args'[1]).singleplayer
      /\ Stored(ndb, args'[1]).player1 = args'[2])
     => \E before \in {Stored(ndb, args'[1])},
           after \in {Stored(ndb', args'[1])} :
          /\ ret'.raised = ""
          /\ after.turn \in {white, blank}
          /\ after.turn = white
               => HasCapture(from_json(after.board, after.turn).board, white)
          /\ \/ /\ before.player2 \notin KnownAIs
                /\ ~ret'.written
                /\ ndb' = ndb
             \/ \E old \in {loads_moves(before.moves)},
                   new \in {loads_moves(after.moves)},
                   loaded \in {from_json(before.board, before.turn)} :
                  /\ ret'.written
                  /\ Len(new) > Len(old)
                  /\ SubSeq(new, 1, Len(old)) = old
                  /\ new[Len(old) + 1] = <<args'[3], args'[4]>>
                  /\ \E placed \in {add_piece(loaded.board, loaded.turn,
                                               args'[3], args'[4], white)} :
                       \E replay \in {Replayed(placed.board, placed.turn, new,
                                                Len(old) + 2)} :
                         /\ replay.legal
                         /\ after.board = to_json(replay.board)
                         /\ after.turn = replay.turn]_vars

\* A move request of the human in a single player game has been stored
\* with two replies of the strategy behind it in the log: white could not
\* move after the first.
C27_Witness ==
  /\ op = "MoveRequest.post"
  /\ QueryGame(ndb, args[1]) # 0
  /\ ret.written
  /\ \E game \in {Stored(ndb, args[1])} :
       /\ game.singleplayer
       /\ game.player1 = args[2]
       /\ game.player2 \in KnownAIs
       /\ game.turn \in {white, blank}
       /\ \E log \in {loads_moves(game.moves)} :
            /\ Len(log) >= 3
            /\ Len(log[Len(log)]) = 3
            /\ Len(log[Len(log) - 1]) = 3
            /\ <<log[Len(log) - 2][1], log[Len(log) - 2][2]>>
                 = <<args[3], args[4]>>

\* C28: a rejected move changes nothing.  A move request for a stored game
\* that is marked done, or by one of its players for a placement on which
\* add_piece on the stored board returns 0, is answered with a response
\* whose error flag is set; no channel message is sent and the datastore is
\* what it was: the game's board, turn, move log, done flag and winner, and
\* every account.
C28_RejectedMoveChangesNothing ==
  [][(/\ op' = "MoveRequest.post"
      /\ QueryGame(ndb, args'[1]) # 0
      /\ \E game \in {Stored(ndb, args'[1])} :
           \/ game.done
           \/ /\ args'[2] \in {game.player1, game.player2}
              /\ \E loaded \in {from_json(game.board, game.turn)} :
                   add_piece(loaded.board, loaded.turn, args'[3], args'[4],
                             TeamOf(game, args'[2])).ret = 0)
     => /\ ret'.raised = ""
        /\ ret'.written
        /\ Get(ret'.response, "error", FALSE) = TRUE
        /\ ret'.sent = <<>>
        /\ ndb' = ndb]_vars

\* The player to move has asked for a blank cell of a game in progress and
\* has been told that the move is illegal.
C28_Witness ==
  /\ op = "MoveRequest.post"
  /\ QueryGame(ndb, args[1]) # 0
  /\ ret.written
  /\ Get(ret.response, "message", "") = "That move is illegal"
  /\ \E game \in {Stored(ndb, args[1])} :
       /\ ~game.done
       /\ args[2] \in {game.player1, game.player2}
       /\ TeamOf(game, args[2]) = game.turn
       /\ from_json(game.board, game.turn).board[args[3]][args[4]] = blank

\* C29: a request for a game that is not stored is answered with an error.
\* A move request or a resign request whose gameID matches no stored game
\* ends without an exception, writes a response whose error flag is set
\* (for a move with the message "Database could not find this game"), and
\* leaves the datastore as it was.
C29_UnknownGameIsAnswered ==
  [][(/\ op' \in {"MoveRequest.post", "ResignRequest.post"}
      /\ QueryGame(ndb, args'[1]) = 0)
     => /\ ret'.raised = ""
        /\ ret'.written
        /\ Get(ret'.response, "error", FALSE) = TRUE
        /\ op' = "MoveRequest.post"
             => Get(ret'.response, "message", "")
                  = "Database could not find this game"
        /\ ndb' = ndb]_vars

\* C30, as claimed: after a move request that the rules accept, the stored
\* game is done exactly when the turn of the handler's Board, after the move
\* and the replies, is the terminal marker; then its winner is what who_won
\* returns for that Board, and otherwise the stored turn is the Board's.
C30_AcceptedMoveIsStored ==
  [][(op' = "MoveRequest.post" /\ Accepted(ndb, args'))
     => \E after \in {Stored(ndb', args'[1])} :
          /\ after.done = (turn' = blank)
          /\ turn' = blank => after.winner = who_won(board', turn')
          /\ turn' # blank => after.turn = turn']_vars

\* C30: done exactly at the end of the game.  After a move request that the
\* rules accept and that the handler answers, the stored board and turn
\* are those of the handler's Board after the move and the replies; the
\* stored game is done exactly when that turn is the terminal marker; then
\* its winner is what who_won returns for that Board (white, black, or the
\* blank marker for a draw), and otherwise its winner is what it was.  A
\* request that is not answered, in a single player game that names no
\* known strategy, stores nothing.
C30_DoneIffTerminal ==
  [][(op' = "MoveRequest.post" /\ Accepted(ndb, args'))
     => \E before \in {Stored(ndb, args'[1])},
           after \in {Stored(ndb', args'[1])} :
          IF ret'.written
          THEN /\ after.board = to_json(board')
               /\ after.turn = turn'
               /\ after.done = (turn' = blank)
               /\ turn' = blank
                    => /\ after.winner = who_won(board', turn')
                       /\ after.winner \in Square
               /\ turn' # blank => after.winner = before.winner
          ELSE /\ before.singleplayer
               /\ before.player2 \notin KnownAIs
               /\ ndb' = ndb]_vars

\* A move request has ended a game in a draw: neither side can move, both
\* hold as many cells, the stored game is done with the blank marker as its
\* winner, and the response says that the game is over.
C30_Witness ==
  /\ op = "MoveRequest.post"
  /\ QueryGame(ndb, args[1]) # 0
  /\ ret.written
  /\ Get(ret.response, "done", FALSE) = TRUE
  /\ turn = blank
  /\ Cardinality({x \in Cells(board) : board[x[1]][x[2]] = white})
       = Cardinality({x \in Cells(board) : board[x[1]][x[2]] = black})
  /\ Stored(ndb, args[1]).done
  /\ Stored(ndb, args[1]).winner = blank

\* The games counter of email's account, 0 while it has none.
GamesOf(store, email) ==
  IF \E i \in DOMAIN store.Account : store.Account[i].id = email
  THEN store.Account[get_account(store, email).key].games
  ELSE 0

\* C31: rankings are updated once for a finished game.  The datastore holds
\* one game.  Whatever move and resign requests are sent for it, by its
\* players or by anyone else, when it is a two player game no account ever
\* has more than one game counted, a step in which some account's games
\* counter changes leaves the stored game marked done, and a resign request
\* whose sender is neither player1 nor player2 of the game leaves the whole
\* datastore, the game record and every account, as it was.
C31_RankingsOncePerGame ==
  [][(/\ op' \in {"MoveRequest.post", "ResignRequest.post"}
      /\ QueryGame(ndb, args'[1]) # 0
      /\ ~Stored(ndb, args'[1]).singleplayer)
     => /\ \A email \in Users : GamesOf(ndb', email) <= 1
        /\ (\E email \in Users : GamesOf(ndb', email) # GamesOf(ndb, email))
             => /\ QueryGame(ndb', args'[1]) # 0
                /\ Stored(ndb', args'[1]).done
        /\ (/\ op' = "ResignRequest.post"
            /\ args'[2] \notin {Stored(ndb, args'[1]).player1,
                                Stored(ndb, args'[1]).player2})
             => ndb' = ndb]_vars

====
